---- MODULE Spec2Model ----
(***************************************************************************)
(* Voice assistant conversation layer (brockhouston1/senior_project).      *)
(*                                                                         *)
(* The module models VoiceStateManager, the turn-taking state machine, in  *)
(* its two source variants:                                                *)
(*   "js"  mobile/src/services/VoiceStateManager.js  (REST APIService)     *)
(*   "ts"  unnamed/part_004 (VoiceStateManager.ts, socket APIService)      *)
(* together with the parts of AudioRecordingService, AudioPlaybackService, *)
(* APIService and the HomeScreen RESPONSE handler that its calls reach.    *)
(*                                                                         *)
(* JavaScript runs one callback at a time: every action below is the code  *)
(* that runs between two awaits (or one timer / event callback).  An       *)
(* awaited native call (permission prompt, recorder start/stop, fetch,     *)
(* playback) settles in a later action with a nondeterministic outcome.    *)
(***************************************************************************)
EXTENDS Integers, Sequences, FiniteSets, TLC

\* ------------------------------------------------------------------ bounds
\* number of commands a client issues in one behaviour when it is free to
\* issue any
MaxCalls == 2
\* concurrent startListening() invocations that are tracked at once
NumListenSlots == 2
\* concurrent stopListening() invocations that are tracked at once
NumStopSlots == 2
\* timers of one kind that may be pending at the same time
MaxTimers == 2
\* startAssistant() runs that may poll for LISTENING at the same time
MaxPollers == 1
\* dynamic imports of the socket client that may be pending at the same time
MaxImports == 1
\* setInterval handles that may be alive at the same time
MaxIntervals == 2
\* states recorded for one startAssistant() run
MaxTrace == 4
\* accepted stops and hand-offs counted for one recording
MaxTurnCount == 2

\* playAudio() calls made in one behaviour of the playback service
MaxPlayCalls == 12
\* of these, calls that play a payload that was played before
MaxReplays == 1
\* concurrent playAudio() invocations that are tracked at once
NumPlaySlots == 2
\* playAudio() calls made in one behaviour whose calls may overlap
MaxOverlapCalls == 3
\* exceptional events in one behaviour of the playback service: a native call
\* that fails, an engine error, a timer that fires before its sound ended
MaxFaults == 1

\* sendAudioForTranscription() calls made in one behaviour
MaxSends == 2

\* startStream() calls made in one behaviour of WebRTCService
MaxStreams == 2
\* STREAM_READY / STREAM_CLOSED / ERROR events counted for one stream session
MaxStreamEvents == 3

\* startRecording() / stopRecording() invocations of AudioRecordingService
\* that are tracked at once, of each kind
NumRecSlots == 2
\* startRecording() calls and stopRecording() calls made in one behaviour
MaxStarts == 2
MaxStops == 2
\* native recorder calls that fail for a reason outside the program
MaxRecFaults == 1
\* recording status updates (one every 500 ms) in one behaviour
MaxUpdates == 6

\* callbacks an application registers with APIService.on()
NumHandlers == 3
\* registrations one event holds at the same time
MaxSubscriptions == 3
\* socket objects created, imports of the socket library in flight, connect()
\* calls, 'connect' events handled, peer-channel events emitted
MaxSockets == 2
MaxPending == 2
MaxConnects == 3
MaxSetups == 3
MaxSignals == 2

\* ------------------------------------------------------- program constants
\* AudioPlaybackService constructor: this.maxCacheSize = 10
maxCacheSize == 10
\* activate(): const maxAttempts = 5
maxAttempts == 5
\* startListening() (js): const maxRetries = 3
maxRetries == 3
\* configureSilenceDetection(enabled, thresholdDb = -30, timeThreshold = 2000)
silenceThresholdDb == -30
silenceTimeThreshold == 2000
\* this.recording.setProgressUpdateInterval(500)
progressUpdateInterval == 500

IDLE == "IDLE"
LISTENING == "LISTENING"
RESPONDING == "RESPONDING"
PROCESSING == "PROCESSING"
ERROR == "ERROR"
VoiceState == {IDLE, LISTENING, RESPONDING, PROCESSING, ERROR}

\* this.error: null or an Error object
NoError == "null"
AnError == "Error"
Errors == {NoError, AnError}

\* the two source variants of the state machine
Variants == {"js", "ts"}

\* observers that can be registered with addListener; "bad" throws when called
Observers == {"good", "bad"}
Throwers == {"bad"}

\* the commands a client can issue
Commands == {"addListener", "removeListener", "activate", "reset", "startAssistant",
             "startListening", "stopListening", "playAudio", "deactivate"}

\* what the client does, as the commands allowed at each of its calls:
\*   free      any MaxCalls commands
\*   retry     start, reset while that turn is in flight, start again
\*   observed  two observers register, then any command, then a manual stop
Plans == {"free", "retry", "observed"}
Steps(p) ==
  CASE p = "free" -> [i \in 1..MaxCalls |-> Commands]
    [] p = "retry" -> <<{"startAssistant"}, {"reset"}, {"startAssistant"}>>
    [] OTHER -> <<{"addListener"}, {"addListener"}, Commands, {"stopListening"}>>

ListenSlots == 1..NumListenSlots
StopSlots == 1..NumStopSlots

VARIABLES
  variant,                 \* which source variant this behaviour runs
  state, error,            \* this.state, this.error
  listeners,               \* this.listeners (a Set: insertion order, no duplicates)
  isConnected,             \* this.isConnected (backend health flag)
  connectionCheckInterval, \* this.connectionCheckInterval is non-null
  liveIntervals,           \* setInterval timers that were armed and not cleared
  safetyTimeout,           \* this.safetyTimeout: "null", "armed" (its timer is pending) or "stale" (it fired)
  safetyPending,           \* safety timers armed, not cleared and not yet fired
  restartPending,          \* 500 ms post-playback restart timers not yet fired
  actPc, attempts,         \* activate(): position and its local `attempts`
  saPc, saTrace,           \* startAssistant(): position; states set since it was accepted
  sl,                      \* startListening() invocations in flight
  st,                      \* stopListening() invocations in flight
  dPc,                     \* deactivate(): position
  recording,               \* AudioRecordingService.recording is non-null
  isPlaying,               \* AudioPlaybackService.isPlaying
  curPlay,                 \* the sound that plays: whose playAudio() call loaded it
  responseSound,           \* the screen's own response sound is playing
  socket, connected,       \* APIService.socket ("none" or "open") and APIService.connected
  imports,                 \* import('socket.io-client') promises not yet resolved
  awaitingReply,           \* a capture was handed to the socket and no reply came yet
  turn,                    \* bookkeeping for the current recording (accepted stops, hand-offs)
  plan, calls,             \* the client's plan and the commands it issued so far
  saPollers,               \* startAssistant() runs (js) polling for LISTENING
  last                     \* what the last action did (the call, its transitions, its notifications)

\* AudioPlaybackService in detail (and OpenAIVoiceService.playAudio)
VARIABLES
  service,                 \* which playAudio() source this behaviour runs
  audioCache,              \* this.audioCache: its keys in insertion order (a Map)
  sound,                   \* this.sound: 0 (null) or a sound object
  loaded,                  \* sound objects the audio engine holds loaded
  playingSounds,           \* sound objects the audio engine is playing
  statusHandler,           \* per sound object: the playAudio() call whose status callback is set on it
  pa,                      \* playAudio() invocations in flight
  playCalls, fresh, replays, \* playAudio() calls made, new payloads used, payloads played again
  recency,                 \* cache keys by last use, least recently used first
  evicted,                 \* what the last cache eviction removed
  isInitialized,           \* this.isInitialized (ts)
  faults,                  \* exceptional events so far
  tx                       \* APIService.sendAudioForTranscription(): its call in flight

\* APIService's event emitter
VARIABLES
  ee,                      \* this.eventListeners, and what the last emitEvent() delivered
  ws,                      \* APIService's link: reconnect timers, and whether disconnect() closed it
  rtc,                     \* WebRTCService: its fields, its peer connection, the events of the session
  ars                      \* AudioRecordingService: its fields, its calls in flight, the native recorders

\* the state of the services modelled on their own
auxV == <<ee, ws, rtc, ars>>

vars == <<variant, state, error, listeners, isConnected, connectionCheckInterval,
          liveIntervals, safetyTimeout, safetyPending, restartPending, actPc,
          attempts, saPc, saTrace, sl, st, dPc, recording, isPlaying, curPlay,
          responseSound, socket, connected, imports, awaitingReply, turn, plan,
          calls, saPollers, last, service, audioCache, sound, loaded,
          playingSounds, statusHandler, pa, playCalls, fresh, replays, recency,
          evicted, isInitialized, faults, tx, ee, ws, rtc, ars>>

\* the state of the playback service
serviceV == <<service, audioCache, sound, loaded, playingSounds, statusHandler,
              pa, playCalls, fresh, replays, recency, evicted, isInitialized,
              faults>>

\* ----------------------------------------------------------------- helpers
Range(s) == {s[i] : i \in 1..Len(s)}

RECURSIVE Without(_, _)
Without(s, x) ==
  IF s = <<>> THEN <<>>
  ELSE IF Head(s) = x THEN Without(Tail(s), x)
       ELSE <<Head(s)>> \o Without(Tail(s), x)

NoDeliveries == [o \in Observers |-> <<>>]

\* notifyListeners(): listeners.forEach(cb => try { cb(state, error) } catch { log })
RECURSIVE notifyListeners(_, _, _, _)
notifyListeners(ls, deliv, s, e) ==
  IF ls = <<>> THEN [deliv |-> deliv, threw |-> FALSE]
  ELSE notifyListeners(Tail(ls), [deliv EXCEPT ![Head(ls)] = Append(@, <<s, e>>)], s, e)

\* The machine as one callback sees it: the fields it may write several times
\* before it yields, with the transitions made and the notifications sent.
Now == [state |-> state, error |-> error, trans |-> <<>>,
        deliv |-> NoDeliveries, obsThrew |-> FALSE, threw |-> FALSE, ev |-> {},
        checks |-> 0]

\* setState without the notification
setStateSilent(m, s, e) ==
  [m EXCEPT !.state = s, !.error = e, !.trans = Append(@, <<s, e>>)]

\* setState(newState, error = null): assign both fields, then notifyListeners()
setState(m, s, e) ==
  LET n == notifyListeners(listeners, m.deliv, s, e)
  IN [state |-> s, error |-> e, trans |-> Append(m.trans, <<s, e>>),
      deliv |-> n.deliv, obsThrew |-> m.obsThrew \/ n.threw,
      threw |-> m.threw \/ n.threw, ev |-> m.ev, checks |-> m.checks]

\* the direct form used by activate(), reset() and deactivate():
\*   this.state = s; this.error = e; this.notifyListeners()
assignAndNotify(m, s, e) ==
  LET n == notifyListeners(listeners, m.deliv, s, e)
  IN [state |-> s, error |-> e, trans |-> Append(m.trans, <<s, e>>),
      deliv |-> n.deliv, obsThrew |-> m.obsThrew \/ n.threw,
      threw |-> m.threw \/ n.threw, ev |-> m.ev, checks |-> m.checks]

\* the record of one action: the operation, the state it found, what it did
\* (threw: an exception reached the caller; obsThrew: it was an observer's;
\* ev: what else happened in it; preRec: whether a recording was held before;
\* checks: the health checks the activate() run it belongs to has made)
Did(op, m) ==
  [op |-> op, pre |-> state, preErr |-> error, preRec |-> recording,
   trans |-> m.trans, deliv |-> m.deliv, obsThrew |-> m.obsThrew,
   threw |-> m.threw, ev |-> m.ev, checks |-> m.checks]

\* the name under which a continuation (the code after an await) or a
\* service event is recorded; commands and timers go by their own names
Step == "step"

Ev(m, tag) == [m EXCEPT !.ev = @ \cup {tag}]

Checked(m, n) == [m EXCEPT !.checks = n]

\* the operation itself throws (or rethrows) to its caller
Throw(m) == [m EXCEPT !.threw = TRUE]

\* states set while a startAssistant() run is in flight (for the scenario trace)
Traced(m) ==
  IF saPc = "idle" THEN <<>>
  ELSE IF Len(saTrace) + Len(m.trans) > MaxTrace THEN saTrace
  ELSE saTrace \o [i \in 1..Len(m.trans) |-> m.trans[i][1]]

Commit(op, m) ==
  /\ state' = m.state
  /\ error' = m.error
  /\ last' = Did(op, m)
  /\ saTrace' = Traced(m)
  /\ UNCHANGED <<serviceV, tx, auxV>>

\* the same for the step in which startAssistant() is accepted: a new trace
CommitAccepted(op, m) ==
  /\ state' = m.state
  /\ error' = m.error
  /\ last' = Did(op, m)
  /\ saTrace' = [i \in 1..Len(m.trans) |-> m.trans[i][1]]
  /\ UNCHANGED <<serviceV, tx, auxV>>

FreshTurn == [accepted |-> 0, handoffs |-> 0]

NoPlay == [who |-> "none", slot |-> 0]

SlIdle == [pc |-> "idle", owner |-> "none", retry |-> 0]
StIdle == [pc |-> "idle", owner |-> "none", cur |-> FALSE]

\* ------------------------------------------------- playback service data
\* the sources of playAudio(): AudioPlaybackService.js, AudioPlaybackService
\* (unnamed/part_003) and OpenAIVoiceService in AudioRecordingService.ts
Services == {"js", "ts", "openai"}

PlaySlots == 1..NumPlaySlots

\* base64 payloads (as character codes), in the order a client first plays them
Payloads ==
  << <<85, 107, 108, 71, 82, 105, 81, 65>>,    \* UklGRiQA
     <<83, 85, 81, 122, 66, 65, 65, 65>>,      \* SUQzBAAA
     <<47, 47, 117, 81, 120, 65, 65, 65>>,     \* //uQxAAA
     <<84, 50, 100, 110, 85, 119, 65, 67>>,    \* T2dnUwAC
     <<65, 65, 65, 65, 73, 71, 90, 48>>,       \* AAAAIGZ0
     <<71, 107, 88, 102, 111, 53, 57, 67>>,    \* GkXfo59C
     <<90, 107, 120, 104, 81, 119, 65, 65>>,   \* ZkxhQwAA
     <<85, 107, 108, 71, 82, 105, 81, 66>>,    \* UklGRiQB
     <<83, 85, 81, 122, 65, 119, 65, 65>>,     \* SUQzAwAA
     <<47, 47, 115, 81, 120, 65, 65, 65>>,     \* //sQxAAA
     <<84, 50, 100, 110, 85, 119, 65, 65>>,    \* T2dnUwAA
     <<65, 65, 65, 65, 72, 71, 90, 48>> >>     \* AAAAHGZ0

\* a 32-bit word as two 16-bit halves <<high, low>>
Half == 2^16

\* hash << 5
Shl5(h) ==
  LET t == h[2] * 32
  IN  <<(h[1] * 32 + t \div Half) % Half, t % Half>>

\* a - b and a + b on 32-bit words
Sub32(a, b) ==
  LET t == a[2] - b[2]
  IN  <<(a[1] - b[1] + t \div Half) % Half, t % Half>>

Add32(a, b) ==
  LET t == a[2] + b[2]
  IN  <<(a[1] + b[1] + t \div Half) % Half, t % Half>>

\* hash & hash: the word read as a signed 32-bit integer
ToInt32(h) ==
  IF h[1] >= Half \div 2 THEN (h[1] - Half) * Half + h[2]
  ELSE h[1] * Half + h[2]

\* one round of the loop: hash = ((hash << 5) - hash) + char
RECURSIVE hashFrom(_, _)
hashFrom(h, str) ==
  IF str = <<>> THEN h
  ELSE hashFrom(Add32(Sub32(Shl5(h), h), <<0, Head(str)>>), Tail(str))

\* hashString(str): the hash as a decimal numeral, given by the integer it
\* denotes
hashString(str) == ToInt32(hashFrom(<<0, 0>>, str))

\* sound objects: null, the object the cache holds under a key, the object
\* the n-th OpenAIVoiceService.playAudio() call created
NoSound == <<>>
CachedSound(key) == <<key>>
CreatedSound(n) == <<n>>
SoundObjects ==
  {CachedSound(hashString(Payloads[n])) : n \in 1..Len(Payloads)}
    \cup {CreatedSound(n) : n \in 1..MaxPlayCalls}

\* one playAudio() invocation: where it is, the payload's cache key, the
\* sound object its pending native call was made on, the promise's closure
\* (hasResolved, the safety timer; for OpenAIVoiceService the 300 ms timers
\* and a safeResolve() that awaits the audio mode) and what the promise and
\* the completion callback saw (resolve() and reject() calls,
\* onPlaybackComplete() calls, an event that found hasResolved set)
PaIdle ==
  [pc |-> "idle", key |-> 0, on |-> NoSound, hasResolved |-> FALSE,
   timer |-> FALSE, finishTimers |-> 0, resetting |-> FALSE,
   outcome |-> "none", resolves |-> 0, rejects |-> 0,
   completes |-> 0, timedOut |-> FALSE, late |-> FALSE]

NoEviction == [victim |-> 0, lru |-> 0, removed |-> FALSE]

ServiceInit ==
  /\ audioCache = <<>>
  /\ sound = NoSound
  /\ loaded = {}
  /\ playingSounds = {}
  /\ statusHandler = [x \in SoundObjects |-> 0]
  /\ pa = [i \in PlaySlots |-> PaIdle]
  /\ playCalls = 0
  /\ fresh = 0
  /\ replays = 0
  /\ recency = <<>>
  /\ evicted = NoEviction
  /\ isInitialized = FALSE
  /\ faults = 0

\* ---------------------------------------------------- fallback transport
\* const CHUNK_SIZE = 500 * 1024 (base64 characters)
CHUNK_SIZE == 500 * 1024

\* 1.2 MB, in bytes of 10^6 and of 2^20 to the megabyte
Size1200kB == 1200 * 1000
Size1200KiB == (12 * 1024 * 1024) \div 10

\* sizes of recorded files, in bytes: small ones, ones that fill one message
\* or a whole number of chunks exactly, 1.2 MB ones, and ones whose base64
\* text is 1.2 MB long
RecordingSizes ==
  {3, 100 * 1024, 375 * 1024, 375 * 1024 + 1, 500 * 1024, 750 * 1024,
   (Size1200kB \div 4) * 3, ((Size1200KiB + 3) \div 4) * 3,
   Size1200kB, Size1200KiB, 1500 * 1024}

\* FileSystem.readAsStringAsync(uri, {encoding: Base64}): the length of the
\* base64 text of n bytes (4 characters for every 3 bytes, padded)
Base64LengthRaw(n) == n

Base64Length(n) == 4 * ((n + 2) \div 3)

\* no sendAudioForTranscription() call yet: the recording, whether the WebRTC
\* stream carries the audio, and for the call in flight its position, the
\* payload's length, the loop's chunkCount and i, the reconnect attempts and
\* 1 s waits it made, the messages it emitted, how it ended, how the call
\* before it ended and how many messages that one emitted, and the calls made
TxIdle(file, webrtc) ==
  [pc |-> "idle", file |-> file, webrtc |-> webrtc, size |-> 0, count |-> 0,
   i |-> 0, attempts |-> 0, waits |-> 0, out |-> <<>>, result |-> "none",
   prev |-> "none", before |-> 0, calls |-> 0]

\* ------------------------------------------------------- event emitter
\* the events of the emitter that the model tells apart
EmitterEvents == {"response", "error"}

Handlers == 1..NumHandlers

\* what a registered callback does when it is called: return, throw, or
\* unregister itself with off() (a one-shot handler)
HandlerKind(h) ==
  CASE h = 1 -> "returns"
    [] h = 2 -> "throws"
    [] OTHER -> "offSelf"

\* APIService constructor: this.eventListeners = new Map(); nothing emitted yet
EeInit ==
  [eventListeners |-> [e \in EmitterEvents |-> <<>>], event |-> "none",
   before |-> <<>>, called |-> [h \in Handlers |-> 0]]

\* no reconnect timer is pending; this.clientId is null; no 'disconnect' event
\* came yet; disconnect() was not called; no reconnect was attempted and no
\* 'connect' event came since disconnect()
SocketIds == 1..MaxSockets

\* the link with its socket objects told apart: this.socket (0: null), the
\* sockets created and the status of each, the imports in flight,
\* this.connected, this.clientId (0: none), this.usingWebRTC; of the peer
\* channel: isInitialized, socketService, the sockets its signaling handlers
\* are on, the listener sets APIService registered on it; what the last
\* STREAM_READY / STREAM_CLOSED delivered (-1: none yet), and the socket the
\* last offer was sent on and the one that was current then
NetInit ==
  [socket |-> 0, created |-> 0, status |-> [k \in SocketIds |-> "none"],
   pending |-> 0, connected |-> FALSE, clientId |-> 0, usingWebRTC |-> FALSE,
   connects |-> 0, isInitialized |-> FALSE, socketService |-> 0,
   signalOn |-> {}, setups |-> 0, readyDelivered |-> -1,
   closedDelivered |-> -1, offerOn |-> 0, offerCurrent |-> 0, signals |-> 0]

WsInit ==
  [timers |-> 0, clientId |-> FALSE, reason |-> "none", closed |-> FALSE,
   reconnects |-> 0, opened |-> FALSE, net |-> NetInit]

\* WebRTCService constructor: no peer connection, no local stream, not
\* initialized, not connected; no startStream() in flight, no answer being
\* applied, no session yet
RtcInit ==
  [isInitialized |-> FALSE, peerConnection |-> FALSE, localStream |-> FALSE,
   isConnected |-> FALSE, pc |-> "idle", answering |-> FALSE,
   answered |-> FALSE, ice |-> "new", conn |-> "new", sessions |-> 0,
   ready |-> 0, readyAnswered |-> FALSE, readyLinked |-> FALSE,
   closed |-> 0, errors |-> 0, openConnections |-> 0, openStreams |-> 0]

RecSlots == 1..NumRecSlots

\* a startRecording() / stopRecording() invocation that is not in flight
SrIdle == [pc |-> "idle", on |-> 0, ret |-> "none"]
SpIdle ==
  [pc |-> "idle", on |-> 0, ret |-> "none", released |-> FALSE,
   held |-> FALSE, auto |-> FALSE]

\* AudioRecordingService constructor: this.recording = null, isInitialized =
\* false, silenceDetectionStartTime = null (here -1); no Recording object was
\* created, no native recorder is prepared, the clock stands at 0
LtIdle == [pc |-> "idle", cause |-> "none", on |-> 0]
RecInit(enabled) ==
  [recording |-> 0, isInitialized |-> FALSE, created |-> 0, prepared |-> {},
   active |-> {}, monitored |-> {},
   sr |-> [i \in RecSlots |-> SrIdle], sp |-> [i \in RecSlots |-> SpIdle],
   starts |-> 0, stops |-> 0, faults |-> 0, overwrites |-> 0,
   silenceDetectionEnabled |-> enabled, silenceDetectionStartTime |-> -1,
   now |-> 0, updates |-> 0, quietSince |-> -1, autoStops |-> 0,
   autoQuiet |-> TRUE, missed |-> FALSE, handed |-> 0,
   useWebRTC |-> FALSE, lt |-> LtIdle]

AuxInit == ee = EeInit /\ ws = WsInit /\ rtc = RtcInit /\ ars = RecInit(TRUE)

\* ------------------------------------------------------------------- Init
\* the state machine and its collaborators after construction
MachineInit ==
  /\ state = IDLE
  /\ error = NoError
  /\ listeners = <<>>
  /\ isConnected = FALSE
  /\ connectionCheckInterval = FALSE
  /\ liveIntervals = 0
  /\ safetyTimeout = "null"
  /\ safetyPending = 0
  /\ restartPending = 0
  /\ actPc = "idle"
  /\ attempts = 0
  /\ saPc = "idle"
  /\ saTrace = <<>>
  /\ sl = [i \in ListenSlots |-> SlIdle]
  /\ st = [i \in StopSlots |-> StIdle]
  /\ dPc = "idle"
  /\ recording = FALSE
  /\ isPlaying = FALSE
  /\ curPlay = NoPlay
  /\ responseSound = FALSE
  /\ socket = "none"
  /\ connected = FALSE
  /\ imports = 0
  /\ awaitingReply = FALSE
  /\ turn = FreshTurn
  /\ calls = 0
  /\ saPollers = 0
  /\ last = Did("init", Now)

Init ==
  /\ variant \in Variants
  /\ plan \in Plans
  /\ MachineInit
  /\ service = variant
  /\ ServiceInit
  /\ tx = TxIdle(3, FALSE)
  /\ AuxInit

\* the client may issue command c now
MayCall(c) == calls < Len(Steps(plan)) /\ c \in Steps(plan)[calls + 1]

\* ------------------------------------------------------------ frame groups
healthV == <<isConnected, connectionCheckInterval, liveIntervals>>
timersV == <<safetyTimeout, safetyPending, restartPending>>
actV == <<actPc, attempts>>
audioV == <<recording, isPlaying, curPlay, responseSound>>
linkV == <<socket, connected, imports, awaitingReply>>
procV == <<saPc, saPollers, sl, st, dPc>>

\* ------------------------------------------------------- observer registry
\* addListener(callback): listeners.add(callback); callback(state, error)
\* (the immediate call is not wrapped in try/catch); an observer registers
\* once until it is removed
addListener(o) ==
  /\ MayCall("addListener")
  /\ o \notin Range(listeners)
  /\ calls' = calls + 1
  /\ listeners' = Append(listeners, o)
  /\ Commit("addListener",
            [Now EXCEPT !.deliv[o] = <<<<state, error>>>>,
                        !.obsThrew = (o \in Throwers),
                        !.threw = (o \in Throwers)])
  /\ UNCHANGED <<variant, plan, healthV, timersV, actV, procV, audioV, linkV, turn>>

\* removeListener(callback): listeners.delete(callback)
removeListener(o) ==
  /\ MayCall("removeListener")
  /\ o \in Range(listeners)
  /\ calls' = calls + 1
  /\ listeners' = Without(listeners, o)
  /\ Commit("removeListener", Now)
  /\ UNCHANGED <<variant, plan, healthV, timersV, actV, procV, audioV, linkV, turn>>

\* ------------------------------------------------------------------ timers
\* if (this.safetyTimeout) { clearTimeout(this.safetyTimeout); this.safetyTimeout = null }
\* (clearing a timer that has fired already removes nothing)
PendingAfterClear == IF safetyTimeout = "armed" THEN safetyPending - 1 ELSE safetyPending

\* ------------------------------------------------------------ health checks
\* stopConnectionChecks(): clearInterval(handle) and forget it, if one is held
IntervalsAfterStop == IF connectionCheckInterval THEN liveIntervals - 1 ELSE liveIntervals

\* a periodic (or the immediate) checkBackendConnection() settles: it writes isConnected
HealthTick(ok) ==
  /\ liveIntervals > 0
  /\ isConnected' = ok
  /\ Commit(Step, Now)
  /\ UNCHANGED <<variant, plan, listeners, connectionCheckInterval, liveIntervals, timersV,
                 actV, procV, audioV, linkV, turn, calls>>

\* ---------------------------------------------------------------- activate
\* activate() up to its first await: attempts = 0 and the loop test
\*   while (!this.isConnected && attempts < maxAttempts)
activateCall ==
  /\ MayCall("activate")
  /\ actPc = "idle"
  /\ liveIntervals < MaxIntervals
  /\ calls' = calls + 1
  /\ attempts' = 0
  /\ IF ~isConnected /\ 0 < maxAttempts
     THEN /\ actPc' = "loop"
          /\ UNCHANGED <<connectionCheckInterval, liveIntervals>>
     ELSE \* startConnectionChecks(), then await initializeRecording()
          /\ actPc' = "init"
          /\ connectionCheckInterval' = TRUE
          /\ liveIntervals' = liveIntervals + 1
  /\ Commit("activate", IF ~isConnected /\ 0 < maxAttempts THEN Now
                         ELSE Ev(Now, "checksStarted"))
  /\ UNCHANGED <<variant, plan, listeners, isConnected, timersV, procV, audioV, linkV, turn>>

\* whether the loop of activate() goes round again after a check
loopAgainAlways(ok, n) == ~ok

loopAgain(ok, n) == ~ok /\ n < maxAttempts

\* one round of the loop: the 2 s wait, checkBackendConnection(), attempts++,
\* then the loop test and, when the loop ends, the code up to the next await
activateCheck(ok) ==
  /\ actPc = "loop"
  /\ isConnected' = ok
  /\ IF loopAgain(ok, attempts + 1)
     THEN /\ actPc' = "loop"
          /\ attempts' = attempts + 1
          /\ Commit(Step, Checked(Now, attempts + 1))
          /\ UNCHANGED <<connectionCheckInterval, liveIntervals>>
     ELSE IF ~ok
     THEN \* throw new Error('Backend not ready ...'); catch: ERROR, notify, rethrow
          /\ actPc' = "idle"
          /\ attempts' = 0
          /\ Commit(Step,
                    Ev(Checked(Throw(assignAndNotify(Now, ERROR, AnError)),
                               attempts + 1), "activateRejected"))
          /\ UNCHANGED <<connectionCheckInterval, liveIntervals>>
     ELSE /\ actPc' = "init"
          /\ attempts' = attempts + 1
          /\ connectionCheckInterval' = TRUE
          /\ liveIntervals' = liveIntervals + 1
          /\ Commit(Step, Ev(Checked(Now, attempts + 1), "checksStarted"))
  /\ UNCHANGED <<variant, plan, listeners, timersV, procV, audioV, linkV, turn, calls>>

\* initializeRecording() settled (it never throws): state = IDLE, error = null, notify
activateInit ==
  /\ actPc = "init"
  /\ actPc' = "idle"
  /\ attempts' = 0
  /\ Commit(Step,
            Ev(Checked(assignAndNotify(Now, IDLE, NoError), attempts), "activateResolved"))
  /\ UNCHANGED <<variant, plan, listeners, healthV, timersV, procV, audioV,
                 linkV, turn, calls>>

\* ------------------------------------------------------------------- reset
\* reset(): ts stops the health checks and clears both timers; js only
\* rewrites the state.  Both end with state = IDLE, error = null, notify.
resetEffect ==
  /\ IF variant = "ts"
     THEN /\ connectionCheckInterval' = FALSE
          /\ liveIntervals' = IntervalsAfterStop
          /\ safetyTimeout' = "null"
          /\ safetyPending' = PendingAfterClear
     ELSE UNCHANGED <<connectionCheckInterval, liveIntervals, safetyTimeout, safetyPending>>

reset ==
  /\ MayCall("reset")
  /\ calls' = calls + 1
  /\ resetEffect
  /\ Commit("reset", assignAndNotify(Now, IDLE, NoError))
  /\ UNCHANGED <<variant, plan, listeners, isConnected, restartPending, actV, procV,
                 audioV, linkV, turn>>


\* ------------------------------------------------------------- socket link
\* APIService.connect(): nothing when a connected socket exists, otherwise a
\* dynamic import is started whose continuation creates the socket
ImportsAfterConnect == IF socket = "open" /\ connected THEN imports ELSE imports + 1

\* import('socket.io-client').then(io => { this.socket = io.default(...) ... })
socketImported ==
  /\ imports > 0
  /\ imports' = imports - 1
  /\ socket' = "open"
  /\ Commit(Step, Now)
  /\ UNCHANGED <<variant, plan, listeners, healthV, timersV, actV, procV, audioV,
                 connected, awaitingReply, turn, calls>>

\* socket.on('connect') and socket.on('reconnect'): this.connected = true
socketConnect ==
  /\ socket = "open" /\ ~connected
  /\ connected' = TRUE
  /\ Commit(Step, Now)
  /\ UNCHANGED <<variant, plan, listeners, healthV, timersV, actV, procV, audioV,
                 socket, imports, awaitingReply, turn, calls>>

\* socket.on('disconnect'): this.connected = false
socketDisconnect ==
  /\ socket = "open" /\ connected
  /\ connected' = FALSE
  /\ Commit(Step, Now)
  /\ UNCHANGED <<variant, plan, listeners, healthV, timersV, actV, procV, audioV,
                 socket, imports, awaitingReply, turn, calls>>

\* ---------------------------------------------------- startListening slots
FreeListen == {i \in ListenSlots : sl[i].pc = "idle"}
FirstFreeListen == CHOOSE i \in FreeListen : \A j \in FreeListen : i <= j

\* startListening(): if (this.state !== VoiceState.LISTENING) return
canStartListening(s) == s = LISTENING

\* startListening() up to its first await (Audio.requestPermissionsAsync()),
\* called when the state is s; it writes nothing before the await
SlAfterCall(s, owner) ==
  IF canStartListening(s)
  THEN [sl EXCEPT ![FirstFreeListen] = [pc |-> "perm", owner |-> owner, retry |-> 0]]
  ELSE sl

\* an invocation can only be tracked when a slot is free
ListenTrackable(s) == canStartListening(s) => FreeListen # {}

\* ---------------------------------------------------------- startAssistant
\* the guard of startAssistant() as the older HomeScreen assumes it (it also
\* calls startAssistant() in ERROR)
canStartAssistantLoose(s) == s \in {IDLE, ERROR}

\* startAssistant(): if (this.state !== VoiceState.IDLE) return
canStartAssistant(s) == s = IDLE

\* startAssistant() up to its first await
\*   ts: APIService.connect(); setState(RESPONDING); await 1000 ms
\*   js: await APIService.startConversation()
startAssistant ==
  /\ MayCall("startAssistant")
  /\ calls' = calls + 1
  /\ IF ~canStartAssistant(state)
     THEN /\ Commit("startAssistant", Ev(Now, "rejected"))
          /\ UNCHANGED <<saPc, imports>>
     ELSE /\ saPc = "idle"
          /\ IF variant = "ts"
             THEN /\ ImportsAfterConnect <= MaxImports
                  /\ imports' = ImportsAfterConnect
                  /\ saPc' = "greet"
                  /\ CommitAccepted("startAssistant", setState(Now, RESPONDING, NoError))
             ELSE /\ saPc' = "conv"
                  /\ CommitAccepted("startAssistant", Now)
                  /\ UNCHANGED imports
  /\ UNCHANGED <<variant, plan, listeners, healthV, timersV, actV, saPollers, sl, st,
                 dPc, audioV, socket, connected, awaitingReply, turn>>

\* ts: the 1000 ms wait and playWelcomeMessage() (a 500 ms wait) are over:
\*   this.setState(VoiceState.LISTENING); await this.startListening()
saGreet ==
  /\ variant = "ts" /\ saPc = "greet"
  /\ FreeListen # {}
  /\ saPc' = "listen"
  /\ sl' = SlAfterCall(LISTENING, "sa")
  /\ Commit(Step, Ev(setState(Now, LISTENING, NoError), "listenCalled"))
  /\ UNCHANGED <<variant, plan, listeners, healthV, timersV, actV, saPollers, st,
                 dPc, audioV, linkV, turn, calls>>

\* js: APIService.startConversation() settled
saConversation(ok) ==
  /\ variant = "js" /\ saPc = "conv"
  /\ IF ok
     THEN /\ saPc' = "hello"
          /\ Commit(Step, Now)
     ELSE \* catch: setState(ERROR, error); throw error
          /\ saPc' = "idle"
          /\ Commit(Step,
                    Ev(Throw(setState(Now, ERROR, AnError)), "startAssistantRejected"))
  /\ UNCHANGED <<variant, plan, listeners, healthV, timersV, actV, saPollers, sl, st,
                 dPc, audioV, linkV, turn, calls>>

\* js: APIService.getResponse('Hello') settled
\*   audio:   setState(RESPONDING); await AudioPlaybackService.playAudio(audio)
\*   noaudio: the if is skipped and startAssistant() returns
\*   fail:    catch: setState(ERROR, error); throw error
saGreeting(kind) ==
  /\ variant = "js" /\ saPc = "hello"
  /\ CASE kind = "audio" ->
            /\ saPc' = "play"
            /\ isPlaying' = TRUE
            /\ curPlay' = [who |-> "sa", slot |-> 0]
            /\ Commit(Step, setState(Now, RESPONDING, NoError))
       [] kind = "noaudio" ->
            /\ saPc' = "idle"
            /\ Commit(Step, Ev(Now, "startAssistantResolved"))
            /\ UNCHANGED <<isPlaying, curPlay>>
       [] OTHER ->
            /\ saPc' = "idle"
            /\ Commit(Step,
                      Ev(Throw(setState(Now, ERROR, AnError)), "startAssistantRejected"))
            /\ UNCHANGED <<isPlaying, curPlay>>
  /\ UNCHANGED <<variant, plan, listeners, healthV, timersV, actV, saPollers, sl, st,
                 dPc, recording, responseSound, linkV, turn, calls>>

\* js: a 100 ms checkState() poll of an earlier run finds this.state ===
\* LISTENING and that run resolves
saPoll ==
  /\ saPollers > 0
  /\ state = LISTENING
  /\ saPollers' = saPollers - 1
  /\ Commit(Step, Ev(Now, "pollResolved"))
  /\ UNCHANGED <<variant, plan, listeners, healthV, timersV, actV, saPc, sl, st, dPc,
                 audioV, linkV, turn, calls>>


\* ---------------------------------------------------------- startListening
\* startListening() called from outside (a screen)
startListening ==
  /\ MayCall("startListening")
  /\ ListenTrackable(state)
  /\ calls' = calls + 1
  /\ sl' = SlAfterCall(state, "ui")
  /\ Commit("startListening",
            Ev(Now, IF canStartListening(state) THEN "listenCalled" ELSE "rejected"))
  /\ UNCHANGED <<variant, plan, listeners, healthV, timersV, actV, saPc, saPollers, st, dPc, audioV,
                 linkV, turn>>

\* the 500 ms timer armed by the playback-complete callback fires:
\*   setTimeout(() => { this.startListening() }, 500)
restartTimerFired ==
  /\ restartPending > 0
  /\ ListenTrackable(state)
  /\ restartPending' = restartPending - 1
  /\ sl' = SlAfterCall(state, "timer")
  /\ Commit("restartTimer",
            Ev(Now, IF canStartListening(state) THEN "listenCalled" ELSE "rejected"))
  /\ UNCHANGED <<variant, plan, listeners, healthV, safetyTimeout, safetyPending, actV,
                 saPc, saPollers, st, dPc, audioV, linkV, turn, calls>>

\* APIService.isConnected(): this.connected && !!this.socket
APIServiceIsConnected == connected /\ socket = "open"

\* the invocation in slot i returns; startAssistant() (ts) awaits the one it made
SlReturned(i) == [sl EXCEPT ![i] = SlIdle]
SaAfterListen(i) == IF sl[i].owner = "sa" THEN "idle" ELSE saPc
ListenDone(i, m) == IF sl[i].owner = "sa" THEN Ev(m, "startAssistantResolved") ELSE m

\* Audio.requestPermissionsAsync() settled
\*   ts: not granted -> throw -> catch: setState(ERROR, error)
\*       granted -> startStreamingRecording(): false when the socket is not
\*       connected (-> throw -> ERROR), else await startRecording()
\*   js: not granted -> setState(ERROR, error); return
\*       granted -> stopRecording() first when a recording is held
slPermission(i, granted) ==
  /\ sl[i].pc = "perm"
  /\ IF ~granted
     THEN /\ sl' = SlReturned(i)
          /\ saPc' = SaAfterListen(i)
          /\ Commit(Step, ListenDone(i, setState(Now, ERROR, AnError)))
     ELSE IF variant = "ts" /\ ~APIServiceIsConnected
     THEN /\ sl' = SlReturned(i)
          /\ saPc' = SaAfterListen(i)
          /\ Commit(Step, ListenDone(i, setState(Now, ERROR, AnError)))
     ELSE /\ sl' = [sl EXCEPT ![i].pc = IF variant = "js" /\ recording
                                        THEN "prestop" ELSE "rec"]
          /\ Commit(Step, Now)
          /\ UNCHANGED <<saPc>>
  /\ UNCHANGED <<variant, plan, listeners, healthV, timersV, actV, st, dPc, audioV,
                 linkV, turn, calls>>
  /\ UNCHANGED saPollers

\* js: the stopRecording() of the previous recording settled (it never throws)
slPreStop(i) ==
  /\ sl[i].pc = "prestop"
  /\ sl' = [sl EXCEPT ![i].pc = "rec"]
  /\ recording' = FALSE
  /\ Commit(Step, Now)
  /\ UNCHANGED <<variant, plan, listeners, healthV, timersV, actV, saPc, saPollers, st, dPc,
                 isPlaying, curPlay, responseSound, linkV, turn, calls>>

\* AudioRecordingService.startRecording() settled (true at once when a
\* recording is held already)
\*   true:  this.safetyTimeout = setTimeout(() => this.stopListening(), ...)
\*   false: ts -> throw -> catch: setState(ERROR, error)
\*          js -> retryCount++, 500 ms, next attempt; after maxRetries setState(IDLE)
slRecorder(i, ok) ==
  /\ sl[i].pc = "rec"
  /\ ~ok => ~recording
  /\ IF ok
     THEN /\ safetyPending < MaxTimers
          /\ recording' = TRUE
          /\ turn' = IF recording THEN turn ELSE FreshTurn
          /\ st' = IF recording THEN st ELSE [j \in StopSlots |-> [st[j] EXCEPT !.cur = FALSE]]
          /\ safetyTimeout' = "armed"
          /\ safetyPending' = safetyPending + 1
          /\ sl' = SlReturned(i)
          /\ saPc' = SaAfterListen(i)
          /\ Commit(Step, ListenDone(i, Now))
     ELSE IF variant = "ts"
     THEN /\ sl' = SlReturned(i)
          /\ saPc' = SaAfterListen(i)
          /\ Commit(Step, ListenDone(i, setState(Now, ERROR, AnError)))
          /\ UNCHANGED <<recording, turn, st, safetyTimeout, safetyPending>>
     ELSE IF sl[i].retry + 1 < maxRetries
     THEN /\ sl' = [sl EXCEPT ![i].retry = @ + 1]
          /\ Commit(Step, Now)
          /\ UNCHANGED <<saPc, recording, turn, st, safetyTimeout, safetyPending>>
     ELSE /\ sl' = SlReturned(i)
          /\ Commit(Step, setState(Now, IDLE, NoError))
          /\ UNCHANGED <<saPc, recording, turn, st, safetyTimeout, safetyPending>>
  /\ UNCHANGED <<variant, plan, listeners, healthV, restartPending, actV, dPc,
                 isPlaying, curPlay, responseSound, linkV, calls>>
  /\ UNCHANGED saPollers


\* ----------------------------------------------------------- stopListening
FreeStop == {i \in StopSlots : st[i].pc = "idle"}
FirstFreeStop == CHOOSE i \in FreeStop : \A j \in FreeStop : i <= j

Bump(n) == IF n < MaxTurnCount THEN n + 1 ELSE n

\* stopListening(): if (this.state !== VoiceState.LISTENING) return
canStopListening(s) == s = LISTENING

\* stopListening() up to its first await, with the safety handle as sft and
\* pend safety timers pending when it is called
\*   ts: clear the timers; guard; setState(PROCESSING);
\*       stopStreamingRecording(): APIService.processAudio(); await stopRecording()
\*   js: guard; clear the timers; setState(PROCESSING);
\*       no recording -> setState(IDLE), return; else await stopRecording()
StopCall(op, owner, sft, pend) ==
  LET cleared == IF sft = "armed" THEN pend - 1 ELSE pend
      accepted == canStopListening(state)
  IN
  /\ (accepted /\ (variant = "ts" \/ recording)) => FreeStop # {}
  /\ IF ~accepted
     THEN /\ safetyTimeout' = IF variant = "ts" THEN "null" ELSE sft
          /\ safetyPending' = IF variant = "ts" THEN cleared ELSE pend
          /\ Commit(op, Ev(Now, "rejected"))
          /\ UNCHANGED <<st, awaitingReply, turn>>
     ELSE /\ safetyTimeout' = "null"
          /\ safetyPending' = cleared
          /\ IF variant = "ts"
             THEN /\ st' = [st EXCEPT ![FirstFreeStop] =
                              [pc |-> "stopping", owner |-> owner, cur |-> recording]]
                  /\ awaitingReply' = (awaitingReply \/ APIServiceIsConnected)
                  /\ turn' = IF recording
                             THEN [accepted |-> Bump(turn.accepted),
                                   handoffs |-> IF APIServiceIsConnected
                                                THEN Bump(turn.handoffs)
                                                ELSE turn.handoffs]
                             ELSE turn
                  /\ Commit(op, Ev(Ev(setState(Now, PROCESSING, NoError), "stopAccepted"),
                                   IF APIServiceIsConnected THEN "handedOff"
                                   ELSE "handoffFailed"))
             ELSE IF ~recording
             THEN /\ Commit(op, Ev(setState(setState(Now, PROCESSING, NoError),
                                            IDLE, NoError), "stopAccepted"))
                  /\ UNCHANGED <<st, awaitingReply, turn>>
             ELSE /\ st' = [st EXCEPT ![FirstFreeStop] =
                              [pc |-> "stoprec", owner |-> owner, cur |-> TRUE]]
                  /\ turn' = [turn EXCEPT !.accepted = Bump(@)]
                  /\ Commit(op, Ev(setState(Now, PROCESSING, NoError), "stopAccepted"))
                  /\ UNCHANGED awaitingReply

\* stopListening() called from outside (the manual stop)
stopListening ==
  /\ MayCall("stopListening")
  /\ calls' = calls + 1
  /\ StopCall("stopListening", "req", safetyTimeout, safetyPending)
  /\ UNCHANGED <<variant, plan, listeners, healthV, restartPending, actV, saPc, saPollers, sl, dPc,
                 audioV, socket, connected, imports>>

\* a safety timer fires (the one the handle names, or one whose handle was
\* overwritten): setTimeout(() => this.stopListening(), ...)
safetyTimerFired(ofHandle) ==
  /\ safetyPending > 0
  /\ IF ofHandle THEN safetyTimeout = "armed"
     ELSE safetyPending > (IF safetyTimeout = "armed" THEN 1 ELSE 0)
  /\ StopCall("safetyTimer", "req",
              IF ofHandle THEN "stale" ELSE safetyTimeout, safetyPending - 1)
  /\ UNCHANGED <<variant, plan, listeners, healthV, restartPending, actV, saPc, saPollers, sl, dPc,
                 audioV, socket, connected, imports, calls>>

\* handleSilence(): if (this.state === VoiceState.LISTENING) this.stopListening()
\* (the recorder reports silence only while it records; in another state
\* the callback does nothing at all)
handleSilence ==
  /\ recording
  /\ state = LISTENING
  /\ StopCall("handleSilence", "req", safetyTimeout, safetyPending)
  /\ UNCHANGED <<variant, plan, listeners, healthV, restartPending, actV, saPc, saPollers, sl, dPc,
                 audioV, socket, connected, imports, calls>>


\* APIService.disconnect() and stopConnectionChecks(), the synchronous part of
\* deactivate() (ts) once no stopListening() is awaited any more
DeactRest ==
  /\ socket' = "none"
  /\ connected' = IF socket = "open" THEN FALSE ELSE connected
  /\ connectionCheckInterval' = FALSE
  /\ liveIntervals' = IntervalsAfterStop

\* ts: AudioRecordingService.stopStreamingRecording() settled (its result is
\* always an object): await 1000 ms
stStopped(i) ==
  /\ st[i].pc = "stopping"
  /\ st' = [st EXCEPT ![i].pc = "proc"]
  /\ recording' = FALSE
  /\ Commit(Step, Now)
  /\ UNCHANGED <<variant, plan, listeners, healthV, timersV, actV, saPc, saPollers, sl, dPc,
                 isPlaying, curPlay, responseSound, linkV, turn, calls>>

\* ts: the 1000 ms are over: setState(RESPONDING); the response timeout is set
\* and cleared at once; await 500 ms
stProcessed(i) ==
  /\ st[i].pc = "proc"
  /\ st' = [st EXCEPT ![i].pc = "resp"]
  /\ Commit(Step, setState(Now, RESPONDING, NoError))
  /\ UNCHANGED <<variant, plan, listeners, healthV, timersV, actV, saPc, saPollers, sl, dPc, audioV,
                 linkV, turn, calls>>

\* ts: the 500 ms are over: setState(LISTENING) and stopListening() returns;
\* a deactivate() that awaited it goes on
stResponded(i) ==
  /\ st[i].pc = "resp"
  /\ st' = [st EXCEPT ![i] = StIdle]
  /\ Commit(Step, setState(Now, LISTENING, NoError))
  /\ IF st[i].owner = "deact"
     THEN /\ DeactRest
          /\ dPc' = "cleanRec"
          /\ UNCHANGED isConnected
     ELSE UNCHANGED <<socket, connected, healthV, dPc>>
  /\ UNCHANGED <<variant, plan, listeners, timersV, actV, saPc, saPollers, sl, audioV, imports,
                 awaitingReply, turn, calls>>

\* js: catch (error) of stopListening(): ERROR only from LISTENING or
\* PROCESSING, then cleanup(): both timers cleared, await the services' cleanup
StCatch(i, op, m, e) ==
  /\ st' = [st EXCEPT ![i].pc = "cleanup"]
  /\ safetyTimeout' = "null"
  /\ safetyPending' = PendingAfterClear
  /\ Commit(op, IF state \in {LISTENING, PROCESSING} THEN setState(m, ERROR, e) ELSE m)

\* js: stopRecording() and the reads of the recorded file settled
\*   ok:   await APIService.transcribeAudio(base64Audio)   (the hand-off)
\*   else: throw new Error('No audio recorded' ...)
stCaptured(i, ok) ==
  /\ st[i].pc = "stoprec"
  /\ recording' = FALSE
  /\ IF ok
     THEN /\ st' = [st EXCEPT ![i].pc = "transcribe"]
          /\ turn' = IF st[i].cur THEN [turn EXCEPT !.handoffs = Bump(@)] ELSE turn
          /\ Commit(Step, Ev(Now, "handedOff"))
          /\ UNCHANGED <<safetyTimeout, safetyPending>>
     ELSE /\ StCatch(i, Step, Now, AnError)
          /\ UNCHANGED turn
  /\ UNCHANGED <<variant, plan, listeners, healthV, restartPending, actV, saPc, saPollers, sl, dPc,
                 isPlaying, curPlay, responseSound, linkV, calls>>

\* js: APIService.transcribeAudio() settled
\*   ok:   setState(RESPONDING); await APIService.getResponse(transcript)
\*   else: it threw (or gave no transcript)
stTranscribed(i, ok) ==
  /\ st[i].pc = "transcribe"
  /\ IF ok
     THEN /\ st' = [st EXCEPT ![i].pc = "reply"]
          /\ Commit(Step, setState(Now, RESPONDING, NoError))
          /\ UNCHANGED <<safetyTimeout, safetyPending>>
     ELSE StCatch(i, Step, Ev(Now, "handoffFailed"), AnError)
  /\ UNCHANGED <<variant, plan, listeners, healthV, restartPending, actV, saPc, saPollers, sl, dPc,
                 audioV, linkV, turn, calls>>

\* js: APIService.getResponse(transcript) settled
\*   audio:   await AudioPlaybackService.playAudio(response.audio)
\*   noaudio: stopListening() returns
\*   fail:    catch
stReply(i, kind) ==
  /\ st[i].pc = "reply"
  /\ CASE kind = "audio" ->
            /\ st' = [st EXCEPT ![i].pc = "play"]
            /\ isPlaying' = TRUE
            /\ curPlay' = [who |-> "st", slot |-> i]
            /\ Commit("reply", Ev(Now, "replyAudio"))
            /\ UNCHANGED <<safetyTimeout, safetyPending>>
       [] kind = "noaudio" ->
            /\ st' = [st EXCEPT ![i] = StIdle]
            /\ Commit("reply", Ev(Now, "replyNoAudio"))
            /\ UNCHANGED <<safetyTimeout, safetyPending, isPlaying, curPlay>>
       [] OTHER ->
            /\ StCatch(i, Step, Now, AnError)
            /\ UNCHANGED <<isPlaying, curPlay>>
  /\ UNCHANGED <<variant, plan, listeners, healthV, restartPending, actV, saPc, saPollers, sl, dPc,
                 recording, responseSound, linkV, turn, calls>>

\* js: cleanup() of the catch settled: AudioRecordingService.cleanup() and
\* AudioPlaybackService.cleanup()
stCleanup(i) ==
  /\ st[i].pc = "cleanup"
  /\ st' = [st EXCEPT ![i] = StIdle]
  /\ recording' = FALSE
  /\ isPlaying' = FALSE
  /\ curPlay' = NoPlay
  /\ Commit(Step, Now)
  /\ UNCHANGED <<variant, plan, listeners, healthV, timersV, actV, saPc, saPollers, sl, dPc,
                 responseSound, linkV, turn, calls>>


\* ---------------------------------------------------------------- playback
\* the callback that never reacts
onPlaybackCompleteNever(s) == FALSE

\* the playback-complete callback: if (this.state === VoiceState.RESPONDING)
onPlaybackCompleteApplies(s) == s = RESPONDING

\* the callback registered with setOnPlaybackComplete():
\*   setState(LISTENING); setTimeout(() => this.startListening(), 500)
onPlaybackComplete(m) ==
  IF onPlaybackCompleteApplies(m.state)
  THEN Ev(setState(m, LISTENING, NoError), "restartArmed")
  ELSE Ev(m, "rejected")

\* js: startAssistant() after its playAudio() resolved: checkState() runs at
\* once and resolves when the state is LISTENING, else polls every 100 ms
PollersAfterPlay(s) == IF s = LISTENING THEN saPollers ELSE saPollers + 1
SaPlayed(m) == IF m.state = LISTENING THEN Ev(m, "startAssistantResolved") ELSE m

\* status.didJustFinish: isPlaying = false; resolve(); this.onPlaybackComplete()
playbackFinished ==
  /\ curPlay.who # "none"
  /\ onPlaybackCompleteApplies(state) => restartPending < MaxTimers
  /\ isPlaying' = FALSE
  /\ curPlay' = NoPlay
  /\ restartPending' = IF onPlaybackCompleteApplies(state)
                       THEN restartPending + 1 ELSE restartPending
  /\ LET m == onPlaybackComplete(Now)
     IN CASE curPlay.who = "sa" /\ saPc = "play" ->
               /\ PollersAfterPlay(m.state) <= MaxPollers
               /\ saPc' = "idle"
               /\ saPollers' = PollersAfterPlay(m.state)
               /\ Commit("playbackComplete", SaPlayed(m))
               /\ UNCHANGED st
          [] curPlay.who = "st" /\ st[curPlay.slot].pc = "play" ->
               /\ st' = [st EXCEPT ![curPlay.slot] = StIdle]
               /\ Commit("playbackComplete", m)
               /\ UNCHANGED <<saPc, saPollers>>
          [] OTHER ->
               /\ Commit("playbackComplete", m)
               /\ UNCHANGED <<saPc, saPollers, st>>
  /\ UNCHANGED <<variant, plan, listeners, healthV, safetyTimeout, safetyPending, actV,
                 sl, dPc, recording, responseSound, linkV, turn, calls>>

\* the 8 s timeout inside playAudio(): isPlaying = false; resolve() without
\* the callback.  It belongs to one playAudio() call, whose sound may have
\* been replaced since.
playbackTimedOut(who, slot) ==
  /\ \/ who = "sa" /\ slot = 0 /\ saPc = "play"
     \/ who = "st" /\ slot \in StopSlots /\ st[slot].pc = "play"
     \/ who = "ext" /\ slot = 0 /\ curPlay.who = "ext"
  /\ isPlaying' = FALSE
  /\ curPlay' = IF curPlay = [who |-> who, slot |-> slot] THEN NoPlay ELSE curPlay
  /\ CASE who = "sa" ->
            /\ PollersAfterPlay(state) <= MaxPollers
            /\ saPc' = "idle"
            /\ saPollers' = PollersAfterPlay(state)
            /\ Commit(Step, SaPlayed(Ev(Now, "playbackTimedOut")))
            /\ UNCHANGED st
       [] who = "st" ->
            /\ st' = [st EXCEPT ![slot] = StIdle]
            /\ Commit(Step, Ev(Now, "playbackTimedOut"))
            /\ UNCHANGED <<saPc, saPollers>>
       [] OTHER ->
            /\ Commit(Step, Ev(Now, "playbackTimedOut"))
            /\ UNCHANGED <<saPc, saPollers, st>>
  /\ UNCHANGED <<variant, plan, listeners, healthV, timersV, actV, sl, dPc, recording,
                 responseSound, linkV, turn, calls>>

\* status.error: isPlaying = false; reject(new Error('Playback error ...'))
\*   startAssistant() (js): catch: setState(ERROR, error); throw error
\*   stopListening() (js):  catch
playbackFailed ==
  /\ curPlay.who # "none"
  /\ isPlaying' = FALSE
  /\ curPlay' = NoPlay
  /\ CASE curPlay.who = "sa" /\ saPc = "play" ->
            /\ saPc' = "idle"
            /\ Commit(Step,
                      Ev(Throw(setState(Now, ERROR, AnError)), "startAssistantRejected"))
            /\ UNCHANGED <<st, safetyTimeout, safetyPending>>
       [] curPlay.who = "st" /\ st[curPlay.slot].pc = "play" ->
            /\ StCatch(curPlay.slot, Step, Now, AnError)
            /\ UNCHANGED <<saPc>>
       [] OTHER ->
            /\ Commit(Step, Now)
            /\ UNCHANGED <<saPc, st, safetyTimeout, safetyPending>>
  /\ UNCHANGED <<variant, plan, listeners, healthV, restartPending, actV, sl, dPc,
                 recording, responseSound, linkV, turn, calls>>
  /\ UNCHANGED saPollers

\* ts: another client of the playback service calls playAudio(audio)
playAudio ==
  /\ variant = "ts"
  /\ MayCall("playAudio")
  /\ calls' = calls + 1
  /\ isPlaying' = TRUE
  /\ curPlay' = [who |-> "ext", slot |-> 0]
  /\ Commit("playAudio", Now)
  /\ UNCHANGED <<variant, plan, listeners, healthV, timersV, actV, procV, recording,
                 responseSound, linkV, turn>>

\* -------------------------------------------- the screen's RESPONSE handler
\* APIService.on(WS_EVENTS.RESPONSE, response => ...)
\*   audio:    playAudioResponse(): VoiceStateManager.setState(RESPONDING), play
\*   no audio: VoiceStateManager.setState(VoiceState.IDLE)
onResponse(audio) ==
  /\ variant = "ts" /\ awaitingReply
  /\ awaitingReply' = FALSE
  /\ IF audio
     THEN /\ responseSound' = TRUE
          /\ Commit("reply", Ev(setState(Now, RESPONDING, NoError), "replyAudio"))
     ELSE /\ Commit("reply", Ev(setState(Now, IDLE, NoError), "replyNoAudio"))
          /\ UNCHANGED responseSound
  /\ UNCHANGED <<variant, plan, listeners, healthV, timersV, actV, procV, recording,
                 isPlaying, curPlay, socket, connected, imports, turn, calls>>

\* the screen's sound reports didJustFinish: VoiceStateManager.setState(IDLE)
responseSoundFinished ==
  /\ responseSound
  /\ responseSound' = FALSE
  /\ Commit(Step, setState(Now, IDLE, NoError))
  /\ UNCHANGED <<variant, plan, listeners, healthV, timersV, actV, procV, recording,
                 isPlaying, curPlay, linkV, turn, calls>>


\* -------------------------------------------------------------- deactivate
\* deactivate() up to its first await
\*   ts: if (state === LISTENING) await stopListening(); then
\*       APIService.disconnect(); stopConnectionChecks(); await cleanup()
\*   js: stopConnectionChecks(); await AudioRecordingService.stopRecording()
deactivate ==
  /\ MayCall("deactivate")
  /\ dPc = "idle"
  /\ calls' = calls + 1
  /\ IF variant = "ts" /\ state = LISTENING
     THEN /\ StopCall("deactivate", "deact", safetyTimeout, safetyPending)
          /\ dPc' = "stopwait"
          /\ UNCHANGED <<socket, connected, healthV>>
     ELSE /\ IF variant = "ts"
             THEN /\ DeactRest
                  /\ dPc' = "cleanRec"
             ELSE /\ connectionCheckInterval' = FALSE
                  /\ liveIntervals' = IntervalsAfterStop
                  /\ dPc' = "stoprec"
                  /\ UNCHANGED <<socket, connected>>
          /\ Commit("deactivate", Now)
          /\ UNCHANGED <<isConnected, safetyTimeout, safetyPending, st,
                         awaitingReply, turn>>
  /\ UNCHANGED <<variant, plan, listeners, restartPending, actV, saPc, saPollers, sl, audioV, imports>>

\* ts: AudioRecordingService.cleanup() settled: a streaming recording was
\* stopped with stopStreamingRecording() (APIService.processAudio() again),
\* the recorder unloaded; await AudioPlaybackService.cleanup()
dCleanRecording ==
  /\ variant = "ts" /\ dPc = "cleanRec"
  /\ dPc' = "cleanPlay"
  /\ recording' = FALSE
  /\ awaitingReply' = (awaitingReply \/ (recording /\ APIServiceIsConnected))
  /\ Commit(Step,
            IF recording /\ APIServiceIsConnected THEN Ev(Now, "cleanupHandedOff") ELSE Now)
  /\ UNCHANGED <<variant, plan, listeners, healthV, timersV, actV, saPc, saPollers, sl, st,
                 isPlaying, curPlay, responseSound, socket, connected, imports, turn, calls>>

\* ts: AudioPlaybackService.cleanup() settled (stopPlayback(), sound = null),
\* then reset() and deactivate() resolves
dCleanPlayback ==
  /\ variant = "ts" /\ dPc = "cleanPlay"
  /\ dPc' = "idle"
  /\ isPlaying' = FALSE
  /\ curPlay' = NoPlay
  /\ resetEffect
  /\ Commit(Step,
            Ev(assignAndNotify(Now, IDLE, NoError), "deactivateResolved"))
  /\ UNCHANGED <<variant, plan, listeners, isConnected, restartPending, actV, saPc, saPollers, sl, st,
                 recording, responseSound, linkV, turn, calls>>

\* js: AudioRecordingService.stopRecording() settled (null when nothing was
\* recorded, it never throws): await APIService.clearHistory()
dStopRecording ==
  /\ variant = "js" /\ dPc = "stoprec"
  /\ dPc' = "clear"
  /\ recording' = FALSE
  /\ Commit(Step, Now)
  /\ UNCHANGED <<variant, plan, listeners, healthV, timersV, actV, saPc, saPollers, sl, st,
                 isPlaying, curPlay, responseSound, linkV, turn, calls>>

\* js: APIService.clearHistory() settled
\*   ok:   reset(); deactivate() resolves
\*   else: catch: state = ERROR; error = e; notifyListeners(); throw e
dClearHistory(ok) ==
  /\ variant = "js" /\ dPc = "clear"
  /\ dPc' = "idle"
  /\ resetEffect
  /\ Commit(Step,
            IF ok THEN Ev(assignAndNotify(Now, IDLE, NoError), "deactivateResolved")
            ELSE Ev(Throw(assignAndNotify(Now, ERROR, AnError)),
                    "deactivateRejected"))
  /\ UNCHANGED <<variant, plan, listeners, isConnected, restartPending, actV, saPc, saPollers, sl, st,
                 audioV, linkV, turn, calls>>

\* --------------------------------------------------------------- behaviour
Next ==
  \/ \E o \in Observers : addListener(o)
  \/ \E o \in Observers : removeListener(o)
  \/ \E ok \in BOOLEAN : HealthTick(ok)
  \/ activateCall
  \/ \E ok \in BOOLEAN : activateCheck(ok)
  \/ activateInit
  \/ reset
  \/ socketImported
  \/ socketConnect
  \/ socketDisconnect
  \/ startAssistant
  \/ saGreet
  \/ \E ok \in BOOLEAN : saConversation(ok)
  \/ \E kind \in {"audio", "noaudio", "fail"} : saGreeting(kind)
  \/ saPoll
  \/ startListening
  \/ restartTimerFired
  \/ \E i \in ListenSlots, granted \in BOOLEAN : slPermission(i, granted)
  \/ \E i \in ListenSlots : slPreStop(i)
  \/ \E i \in ListenSlots, ok \in BOOLEAN : slRecorder(i, ok)
  \/ stopListening
  \/ \E ofHandle \in BOOLEAN : safetyTimerFired(ofHandle)
  \/ handleSilence
  \/ \E i \in StopSlots : stStopped(i)
  \/ \E i \in StopSlots : stProcessed(i)
  \/ \E i \in StopSlots : stResponded(i)
  \/ \E i \in StopSlots, ok \in BOOLEAN : stCaptured(i, ok)
  \/ \E i \in StopSlots, ok \in BOOLEAN : stTranscribed(i, ok)
  \/ \E i \in StopSlots, kind \in {"audio", "noaudio", "fail"} : stReply(i, kind)
  \/ \E i \in StopSlots : stCleanup(i)
  \/ playbackFinished
  \/ \E who \in {"sa", "st", "ext"}, slot \in {0} \cup StopSlots : playbackTimedOut(who, slot)
  \/ playbackFailed
  \/ playAudio
  \/ \E audio \in BOOLEAN : onResponse(audio)
  \/ responseSoundFinished
  \/ deactivate
  \/ dCleanRecording
  \/ dCleanPlayback
  \/ dStopRecording
  \/ \E ok \in BOOLEAN : dClearHistory(ok)

Spec == Init /\ [][Next]_vars

\* ------------------------------------------------------------------ claims
\* the requests that ask for a recording to start / to stop
ListenRequests == {"startListening", "restartTimer"}
StopRequests == {"stopListening", "safetyTimer", "handleSilence"}

\* the last action was a command issued in a state in which it is not valid
InvalidCall ==
  \/ last.op = "startAssistant" /\ last.pre # IDLE
  \/ last.op \in ListenRequests /\ last.pre # LISTENING
  \/ last.op \in StopRequests /\ last.pre # LISTENING
  \/ last.op = "playbackComplete" /\ last.pre # RESPONDING

\* C1: a command issued in a state in which it is not valid (startAssistant
\* outside IDLE, startListening or stopListening outside LISTENING, the
\* playback-complete callback outside RESPONDING) is a no-op: it makes no
\* transition, state and error are what they were, and nothing is thrown.
C1_InvalidCallIsNoOp ==
  InvalidCall =>
    /\ state = last.pre
    /\ error = last.preErr
    /\ last.trans = <<>>
    /\ ~last.threw

\* startAssistant() was called while a turn was going on and was turned away
C1_Witness ==
  /\ last.op = "startAssistant"
  /\ last.pre \in {LISTENING, PROCESSING, RESPONDING, ERROR}
  /\ "rejected" \in last.ev
  /\ state = last.pre

\* C2: stop requests for one recording (the manual stop, the safety timer,
\* the silence callback, however they interleave) are served once: at most
\* one of them performs LISTENING -> PROCESSING for that recording and at
\* most one hand-off of its capture to the transport is made.
C2_OneStopPerRecording ==
  /\ turn.accepted <= 1
  /\ turn.handoffs <= 1

\* C3: when the hand-off of the capture fails while the machine is
\* PROCESSING, the machine goes to IDLE (not ERROR), the state from which
\* the next startAssistant() is accepted.
C3_HandoffFailureLeadsToIdle ==
  ("handoffFailed" \in last.ev /\ last.pre = PROCESSING) =>
    /\ state = IDLE
    /\ canStartAssistant(state)

\* C4: a reply that arrives while the machine is PROCESSING leads, with
\* audio, to RESPONDING with the reply playing and, without audio, straight
\* to LISTENING (RESPONDING is not entered) with the capture restarted.
C4_ReplyWhileProcessing ==
  (last.op = "reply" /\ last.pre = PROCESSING) =>
    IF "replyAudio" \in last.ev
    THEN /\ state = RESPONDING
         /\ isPlaying \/ responseSound
    ELSE /\ state = LISTENING
         /\ last.trans = <<<<LISTENING, NoError>>>>
         /\ "listenCalled" \in last.ev

C6_DeactivateEndsIdle ==
  "deactivateResolved" \in last.ev =>
    /\ state = IDLE
    /\ error = NoError
    /\ ~recording
    /\ ~isPlaying
    /\ socket = "none"

\* C7: every transition an action makes (through setState, activate(),
\* reset() or deactivate()) is delivered to each registered observer exactly
\* once, as the new (state, error) pair and in the order of the transitions;
\* an observer that is not registered is told nothing; the state changes
\* only through such transitions.
C7_EveryTransitionReportedOnce ==
  /\ last.op # "addListener" =>
       \A o \in Observers :
         last.deliv[o] = IF o \in Range(listeners) THEN last.trans ELSE <<>>
  /\ IF last.trans = <<>>
     THEN state = last.pre /\ error = last.preErr
     ELSE last.trans[Len(last.trans)] = <<state, error>>

\* two observers are registered and an action has just made two transitions
C7_Witness ==
  /\ Len(listeners) = 2
  /\ Len(last.trans) = 2
  /\ \A o \in Observers : last.deliv[o] = last.trans

\* C8: an observer that throws does not break the machine: in every action
\* each registered observer is still told every transition, the state is
\* the one the action set, and no exception of an observer reaches the
\* caller, be it the caller of a transition or the caller of addListener().
C8_ThrowingObserverContained ==
  /\ ~last.obsThrew
  /\ last.op # "addListener" =>
       \A o \in Range(listeners) : last.deliv[o] = last.trans
  /\ last.trans # <<>> => last.trans[Len(last.trans)] = <<state, error>>

\* C9: activate() makes at most maxAttempts health checks: the retry loop is
\* only waited in with fewer checks made; it goes on to initialise only in
\* a step that starts the periodic checks; it resolves with the machine
\* IDLE and no error; and it is rejected, with the machine in ERROR, exactly
\* when the last allowed check has failed too.
C9_ActivateBounded ==
  /\ attempts <= maxAttempts
  /\ last.checks <= maxAttempts
  /\ actPc = "loop" => attempts < maxAttempts
  /\ "checksStarted" \in last.ev =>
       /\ actPc = "init"
       /\ connectionCheckInterval
       /\ liveIntervals > 0
       /\ isConnected
  /\ (actPc = "init" /\ last.op = "activate") => "checksStarted" \in last.ev
  /\ "activateResolved" \in last.ev =>
       /\ state = IDLE
       /\ error = NoError
       /\ last.trans = <<<<IDLE, NoError>>>>
       /\ ~last.threw
       /\ actPc = "idle"
  /\ "activateRejected" \in last.ev =>
       /\ last.checks = maxAttempts
       /\ last.threw
       /\ state = ERROR
       /\ error = AnError
       /\ ~isConnected
       /\ actPc = "idle"

\* activate() has just been rejected after its last health check failed
C9_Witness ==
  /\ "activateRejected" \in last.ev
  /\ last.checks = maxAttempts
  /\ state = ERROR

\* C10: a startAssistant() that was accepted in IDLE and resolves without
\* an error has taken the machine through exactly RESPONDING and then
\* LISTENING, and through no other state.
C10_StartAssistantSequence ==
  ("startAssistantResolved" \in last.ev /\ error = NoError /\ ~last.threw) =>
    saTrace = <<RESPONDING, LISTENING>>

\* something is still under way that can change the state by itself: a
\* timer, an invocation between two awaits, a sound that plays, a reply
\* that is awaited (a later command of the client is not counted)
StateChangePending ==
  \/ safetyPending > 0
  \/ restartPending > 0
  \/ actPc # "idle"
  \/ saPc # "idle"
  \/ dPc # "idle"
  \/ \E i \in ListenSlots : sl[i].pc # "idle"
  \/ \E i \in StopSlots : st[i].pc # "idle"
  \/ curPlay.who # "none"
  \/ responseSound
  \/ awaitingReply

\* C11: the machine is never left in LISTENING without a safety timer: in
\* LISTENING either a safety timer is pending, or something is still under
\* way that arms one or moves the machine on.
C11_ListeningHasSafetyTimer ==
  state = LISTENING => StateChangePending

\* C12: when the playback of a reply ends while the machine is RESPONDING,
\* through the completion callback or through the playback's own timeout,
\* the machine has left RESPONDING or something is still under way that
\* moves it on.
C12_PlaybackEndLeavesResponding ==
  (/\ last.pre = RESPONDING
   /\ last.op = "playbackComplete" \/ "playbackTimedOut" \in last.ev) =>
    state # RESPONDING \/ StateChangePending

\* ======================================================================
\* AudioPlaybackService.playAudio() in detail: the cache, this.sound, the
\* completion promise and the audio engine's events
\* ----------------------------------------------------------------------
\* the state machine's variables, which the playback service leaves alone
baseV == <<variant, state, error, listeners, healthV, timersV, actV, saTrace,
           procV, recording, curPlay, responseSound, linkV, turn, plan, calls,
           last>>

machineV == <<baseV, tx, auxV>>

\* the playback service's state as one value
Svc ==
  [cache |-> audioCache, sound |-> sound, loaded |-> loaded,
   playing |-> playingSounds, handler |-> statusHandler, pa |-> pa,
   isPlaying |-> isPlaying, recency |-> recency, evicted |-> evicted,
   init |-> isInitialized]

PutService(r) ==
  /\ audioCache' = r.cache
  /\ sound' = r.sound
  /\ loaded' = r.loaded
  /\ playingSounds' = r.playing
  /\ statusHandler' = r.handler
  /\ pa' = r.pa
  /\ isPlaying' = r.isPlaying
  /\ recency' = r.recency
  /\ evicted' = r.evicted
  /\ isInitialized' = r.init
  /\ UNCHANGED <<service, machineV>>

Put(r) == PutService(r) /\ UNCHANGED <<playCalls, fresh, replays, faults>>

\* the same for a step that an exceptional event takes
PutFault(r) ==
  /\ faults < MaxFaults
  /\ faults' = faults + 1
  /\ PutService(r)
  /\ UNCHANGED <<playCalls, fresh, replays>>

\* call i waits for a native call made on sound object x
At(r, i, pc, x) == [r EXCEPT !.pa[i].pc = pc, !.pa[i].on = x]

\* key was used now
Used(rec, key) == Without(rec, key) \o <<key>>

\* the outer catch of playAudio(): this.isPlaying = false; throw error
fail(r, i) ==
  [r EXCEPT !.isPlaying = FALSE, !.pa[i].pc = "done",
            !.pa[i].outcome = "rejected", !.pa[i].rejects = @ + 1]

\* await this.sound.setVolumeAsync(1.0)
setVolume(r, i) ==
  IF r.sound = NoSound THEN fail(r, i) ELSE At(r, i, "volume", r.sound)

\* const audioHash = this.hashString(audioBase64); if (this.audioCache.has(
\* audioHash)) this.sound = this.audioCache.get(audioHash); else createAsync()
lookup(r, i) ==
  LET key == r.pa[i].key
  IN  IF key \in Range(r.cache)
      THEN setVolume([r EXCEPT !.sound = CachedSound(key),
                               !.recency = Used(@, key)], i)
      ELSE At(r, i, "load", NoSound)

\* stopPlayback(): if (this.sound && this.isPlaying) await this.sound.stopAsync()
stopPlayback(r, i) ==
  IF r.sound # NoSound /\ r.isPlaying THEN At(r, i, "stop", r.sound)
  ELSE lookup(r, i)

\* Map.set(key, value): a new key goes last, an old key keeps its place
cacheSet(cache, key) == IF key \in Range(cache) THEN cache ELSE Append(cache, key)

\* the cached keys by last use
CachedByUse(r) == SelectSeq(r.recency, LAMBDA k : k \in Range(r.cache))

\* this.sound = sound; this.audioCache.set(audioHash, sound)
stored(r, i) ==
  LET key == r.pa[i].key
  IN  [r EXCEPT !.loaded = @ \cup {CachedSound(key)},
                !.sound = CachedSound(key),
                !.cache = cacheSet(@, key),
                !.recency = Used(@, key)]

\* if (this.audioCache.size > this.maxCacheSize): oldestKey =
\* this.audioCache.keys().next().value; await oldestSound.unloadAsync()
inserted(r, i) ==
  LET r1 == stored(r, i)
  IN  IF Len(r1.cache) > maxCacheSize
      THEN [At(r1, i, "evict", CachedSound(Head(r1.cache))) EXCEPT
              !.evicted = [victim |-> Head(r1.cache),
                           lru |-> Head(CachedByUse(r)),
                           removed |-> FALSE]]
      ELSE setVolume(r1, i)

\* cleanup() of the promise: clearTimeout(timeoutId); subscription.remove();
\* this.isPlaying = false.  (js) setOnPlaybackStatusUpdate() returns nothing,
\* so there is no subscription to remove; (ts) remove() clears the callback
\* of what this.sound is now
cleanup(r, i) ==
  [r EXCEPT !.pa[i].timer = FALSE,
            !.isPlaying = FALSE,
            !.handler = IF service = "ts" /\ r.sound # NoSound
                        THEN [@ EXCEPT ![r.sound] = 0] ELSE @]

\* the guard of every settling branch: !hasResolved
mayResolveAlways(hasResolved) == TRUE

mayResolve(hasResolved) == ~hasResolved

\* resolve() and reject(): the first call settles the promise
resolve(r, i) ==
  [r EXCEPT !.pa[i].resolves = @ + 1,
            !.pa[i].outcome = IF @ = "pending" THEN "resolved" ELSE @,
            !.pa[i].pc = "done"]

reject(r, i) ==
  [r EXCEPT !.pa[i].rejects = @ + 1,
            !.pa[i].outcome = IF @ = "pending" THEN "rejected" ELSE @,
            !.pa[i].pc = "done"]

\* this.onPlaybackComplete()
completed(r, i) == [r EXCEPT !.pa[i].completes = @ + 1]

\* OpenAIVoiceService: the status callback of call i: didJustFinish arms a
\* 300 ms timer for safeResolve; error calls reject()
vsOnStatus(r, i, kind) ==
  IF kind = "finish" THEN [r EXCEPT !.pa[i].finishTimers = @ + 1]
  ELSE reject(r, i)

\* the status callback of call i: didJustFinish or error
onStatus(r, i, kind) ==
  IF service = "openai" THEN vsOnStatus(r, i, kind)
  ELSE IF ~mayResolve(r.pa[i].hasResolved) THEN [r EXCEPT !.pa[i].late = TRUE]
  ELSE LET r1 == cleanup([r EXCEPT !.pa[i].hasResolved = TRUE], i)
       IN  IF kind = "finish" THEN completed(resolve(r1, i), i)
           ELSE reject(r1, i)

\* a slot is free when its call has settled and none of its timers is pending
FreePlay ==
  {i \in PlaySlots : /\ pa[i].pc \in {"idle", "done"}
                     /\ ~pa[i].timer
                     /\ pa[i].finishTimers = 0
                     /\ ~pa[i].resetting}

\* how a client of the playback service places its calls: each one after the
\* one before has settled, or (for a few calls) at any time
PlayPlans == {"sequence", "overlap"}

MayPlay ==
  /\ playCalls < MaxPlayCalls
  /\ plan = "sequence" => FreePlay = PlaySlots
  /\ plan = "overlap" => playCalls < MaxOverlapCalls

FirstFreePlay == CHOOSE i \in FreePlay : \A j \in FreePlay : i <= j

\* playAudio(audioBase64) is called with the n-th payload: the next new one
\* or one that was played before; await this.initializePlayback()
playAudioCall(n) ==
  /\ service \in {"js", "ts"}
  /\ MayPlay
  /\ FreePlay # {}
  /\ \/ n = fresh + 1 /\ fresh' = n /\ replays' = replays
     \/ n <= fresh /\ replays < MaxReplays /\ replays' = replays + 1 /\ fresh' = fresh
  /\ playCalls' = playCalls + 1
  /\ LET i == FirstFreePlay
         r == [Svc EXCEPT
                 !.pa[i] = [PaIdle EXCEPT !.pc = "init",
                                          !.key = hashString(Payloads[n])],
                 !.handler = [x \in SoundObjects |->
                                IF @[x] = i THEN 0 ELSE @[x]]]
     IN  PutService(IF r.init THEN stopPlayback(r, i) ELSE r)
  /\ UNCHANGED faults

\* Audio.setAudioModeAsync() settles; await this.stopPlayback()
paInitialized(i, ok) ==
  /\ service \in {"js", "ts"}
  /\ pa[i].pc = "init"
  /\ IF ok THEN Put(stopPlayback([Svc EXCEPT !.init = service = "ts"], i))
     ELSE PutFault(fail(Svc, i))

\* this.sound.stopAsync() settles: this.isPlaying = false (an error is logged)
paStopped(i, ok) ==
  /\ service \in {"js", "ts"}
  /\ pa[i].pc = "stop"
  /\ IF ok THEN Put(lookup([Svc EXCEPT !.playing = @ \ {pa[i].on},
                                         !.isPlaying = FALSE], i))
     ELSE PutFault(lookup(Svc, i))

\* Audio.Sound.createAsync() settles; on an error (js) tries the other format
paLoaded(i, ok) ==
  /\ service \in {"js", "ts"}
  /\ pa[i].pc = "load"
  /\ IF ok THEN Put(inserted(Svc, i))
     ELSE PutFault(IF service = "js" THEN At(Svc, i, "load2", NoSound)
                   ELSE fail(Svc, i))

\* oldestSound.unloadAsync() settles; this.audioCache.delete(oldestKey)
paEvicted(i, ok) ==
  /\ service \in {"js", "ts"}
  /\ pa[i].pc = "evict"
  /\ LET x == pa[i].on
         key == x[1]
     IN  IF ok
         THEN Put(setVolume([Svc EXCEPT !.loaded = @ \ {x},
                                        !.playing = @ \ {x},
                                        !.handler[x] = 0,
                                        !.cache = Without(@, key),
                                        !.recency = Without(@, key),
                                        !.evicted.removed = TRUE], i))
         ELSE PutFault(IF service = "js" THEN At(Svc, i, "load2", NoSound)
                       ELSE fail(Svc, i))

\* (js) the second createAsync() (data:audio/mpeg) settles
paReloaded(i, ok) ==
  /\ service \in {"js", "ts"}
  /\ pa[i].pc = "load2"
  /\ IF ok THEN Put(setVolume(stored(Svc, i), i)) ELSE PutFault(fail(Svc, i))

\* setVolumeAsync() settles; const status = await this.sound.getStatusAsync()
paVolume(i, ok) ==
  /\ service \in {"js", "ts"}
  /\ pa[i].pc = "volume"
  /\ IF pa[i].on \notin loaded THEN ~ok /\ Put(fail(Svc, i))
     ELSE IF ok THEN Put(At(Svc, i, "status", sound))
     ELSE PutFault(fail(Svc, i))

\* getStatusAsync() settles; if (!status.isLoaded) throw; await
\* this.sound.playAsync()
paStatus(i, ok) ==
  /\ service \in {"js", "ts"}
  /\ pa[i].pc = "status"
  /\ IF pa[i].on \notin loaded THEN ok /\ Put(fail(Svc, i))
     ELSE IF ok THEN Put(At(Svc, i, "play", sound))
     ELSE PutFault(fail(Svc, i))

\* playAsync() settles: this.isPlaying = true; return new Promise(...): the
\* status callback is set on this.sound and the 8 s timer is armed
paPlayed(i, ok) ==
  /\ service \in {"js", "ts"}
  /\ pa[i].pc = "play"
  /\ IF pa[i].on \notin loaded THEN ~ok /\ Put(fail(Svc, i))
     ELSE IF ok
     THEN Put([Svc EXCEPT !.playing = @ \cup {pa[i].on},
                          !.isPlaying = TRUE,
                          !.handler[sound] = i,
                          !.pa[i].pc = "wait",
                          !.pa[i].on = sound,
                          !.pa[i].timer = TRUE,
                          !.pa[i].outcome = "pending"])
     ELSE PutFault(fail(Svc, i))

\* ------------------------------------------ OpenAIVoiceService.playAudio
\* the catch of playAudio(): throw error
vsFail(r, i) ==
  [r EXCEPT !.pa[i].pc = "done", !.pa[i].outcome = "rejected",
            !.pa[i].rejects = @ + 1]

\* playAudio(base64Audio) is called (the payload plays no part in what
\* follows; key numbers the call): if (this.sound) await
\* this.sound.unloadAsync(); else await Audio.setAudioModeAsync()
vsPlayAudio ==
  /\ service = "openai"
  /\ MayPlay
  /\ FreePlay # {}
  /\ playCalls' = playCalls + 1
  /\ LET i == FirstFreePlay
         r == [Svc EXCEPT
                 !.pa[i] = [PaIdle EXCEPT !.key = playCalls + 1],
                 !.handler = [x \in SoundObjects |->
                                IF @[x] = i THEN 0 ELSE @[x]]]
     IN  PutService(IF sound # NoSound THEN At(r, i, "unload", sound)
                    ELSE At(r, i, "mode", CreatedSound(playCalls + 1)))
  /\ UNCHANGED <<fresh, replays, faults>>

\* this.sound.unloadAsync() settles (an error is logged); this.sound = null;
\* await Audio.setAudioModeAsync()
vsUnloaded(i, ok) ==
  /\ service = "openai"
  /\ pa[i].pc = "unload"
  /\ LET x == pa[i].on
         r == At([Svc EXCEPT !.sound = NoSound], i, "mode", CreatedSound(pa[i].key))
     IN  IF ok
         THEN Put([r EXCEPT !.loaded = @ \ {x},
                            !.playing = @ \ {x},
                            !.handler[x] = 0])
         ELSE PutFault(r)

\* Audio.setAudioModeAsync() settles; new Audio.Sound(); await loadAsync()
vsModeSet(i, ok) ==
  /\ service = "openai"
  /\ pa[i].pc = "mode"
  /\ IF ok THEN Put([Svc EXCEPT !.pa[i].pc = "load"])
     ELSE PutFault(vsFail(Svc, i))

\* soundObject.loadAsync() settles; await soundObject.setVolumeAsync(1.0)
vsLoaded(i, ok) ==
  /\ service = "openai"
  /\ pa[i].pc = "load"
  /\ IF ok THEN Put([Svc EXCEPT !.loaded = @ \cup {pa[i].on},
                                 !.pa[i].pc = "volume"])
     ELSE PutFault(vsFail(Svc, i))

\* setVolumeAsync() and then getStatusAsync() settle; await
\* soundObject.playAsync()
vsReady(i, ok) ==
  /\ service = "openai"
  /\ pa[i].pc \in {"volume", "status"}
  /\ IF ok THEN Put([Svc EXCEPT !.pa[i].pc =
                        IF pa[i].pc = "volume" THEN "status" ELSE "play"])
     ELSE PutFault(vsFail(Svc, i))

\* playAsync() settles: this.sound = soundObject; return new Promise(...):
\* the status callback is set and the safety timer is armed
vsPlayed(i, ok) ==
  /\ service = "openai"
  /\ pa[i].pc = "play"
  /\ IF ok
     THEN Put([Svc EXCEPT !.playing = @ \cup {pa[i].on},
                          !.sound = pa[i].on,
                          !.handler[pa[i].on] = i,
                          !.pa[i].pc = "wait",
                          !.pa[i].timer = TRUE,
                          !.pa[i].outcome = "pending"])
     ELSE PutFault(vsFail(Svc, i))

\* safeResolve(): if (!isResolved) { isResolved = true; await
\* Audio.setAudioModeAsync(); resolve() }
safeResolve(r, i) ==
  IF mayResolve(r.pa[i].hasResolved)
  THEN [r EXCEPT !.pa[i].hasResolved = TRUE, !.pa[i].resetting = TRUE]
  ELSE [r EXCEPT !.pa[i].late = TRUE]

\* a 300 ms timer armed by didJustFinish fires
vsFinishTimer(i) ==
  /\ pa[i].finishTimers > 0
  /\ Put(safeResolve([Svc EXCEPT !.pa[i].finishTimers = @ - 1], i))

\* the safety timer fires (it is never cleared)
vsSafetyTimer(i) ==
  /\ service = "openai"
  /\ pa[i].timer
  /\ LET r == safeResolve([Svc EXCEPT !.pa[i].timer = FALSE,
                                      !.pa[i].timedOut = ~pa[i].hasResolved], i)
     IN  IF playingSounds = {} THEN Put(r) ELSE PutFault(r)

\* the setAudioModeAsync() of safeResolve settles (an error is logged): resolve()
vsModeReset(i) ==
  /\ pa[i].resetting
  /\ Put(resolve([Svc EXCEPT !.pa[i].resetting = FALSE], i))

\* the audio engine reports a status of sound object x to its callback
Reported(r, x, kind) ==
  IF r.handler[x] = 0 THEN r ELSE onStatus(r, r.handler[x], kind)

\* a sound plays to its end: status.didJustFinish
soundFinished(x) ==
  /\ x \in playingSounds
  /\ Put(Reported([Svc EXCEPT !.playing = @ \ {x}], x, "finish"))

\* the engine fails while a sound plays: status.error
soundError(x) ==
  /\ x \in playingSounds
  /\ PutFault(Reported([Svc EXCEPT !.playing = @ \ {x}], x, "error"))

\* the callback of setTimeout(..., 8000): if (!hasResolved) { hasResolved =
\* true; cleanup(); resolve() }
onTimeoutIgnored(r, i) == r

onTimeout(r, i) ==
  IF mayResolve(r.pa[i].hasResolved)
  THEN [resolve(cleanup([r EXCEPT !.pa[i].hasResolved = TRUE], i), i)
          EXCEPT !.pa[i].timedOut = TRUE]
  ELSE [r EXCEPT !.pa[i].late = TRUE]

\* the 8 s timer of call i fires (an exceptional event while a sound plays)
paTimeout(i) ==
  /\ service \in {"js", "ts"}
  /\ pa[i].timer
  /\ LET r == onTimeout([Svc EXCEPT !.pa[i].timer = FALSE], i)
     IN  IF playingSounds = {} THEN Put(r) ELSE PutFault(r)

PlaybackInit ==
  /\ service \in Services
  /\ variant = IF service = "js" THEN "js" ELSE "ts"
  /\ plan \in PlayPlans
  /\ MachineInit
  /\ ServiceInit
  /\ tx = TxIdle(3, FALSE)
  /\ AuxInit

PlaybackNext ==
  \/ \E n \in 1..Len(Payloads) : playAudioCall(n)
  \/ \E i \in PlaySlots, ok \in BOOLEAN : paInitialized(i, ok)
  \/ \E i \in PlaySlots, ok \in BOOLEAN : paStopped(i, ok)
  \/ \E i \in PlaySlots, ok \in BOOLEAN : paLoaded(i, ok)
  \/ \E i \in PlaySlots, ok \in BOOLEAN : paEvicted(i, ok)
  \/ \E i \in PlaySlots, ok \in BOOLEAN : paReloaded(i, ok)
  \/ \E i \in PlaySlots, ok \in BOOLEAN : paVolume(i, ok)
  \/ \E i \in PlaySlots, ok \in BOOLEAN : paStatus(i, ok)
  \/ \E i \in PlaySlots, ok \in BOOLEAN : paPlayed(i, ok)
  \/ \E x \in SoundObjects : soundFinished(x)
  \/ \E x \in SoundObjects : soundError(x)
  \/ \E i \in PlaySlots : paTimeout(i)
  \/ vsPlayAudio
  \/ \E i \in PlaySlots, ok \in BOOLEAN : vsUnloaded(i, ok)
  \/ \E i \in PlaySlots, ok \in BOOLEAN : vsModeSet(i, ok)
  \/ \E i \in PlaySlots, ok \in BOOLEAN : vsLoaded(i, ok)
  \/ \E i \in PlaySlots, ok \in BOOLEAN : vsReady(i, ok)
  \/ \E i \in PlaySlots, ok \in BOOLEAN : vsPlayed(i, ok)
  \/ \E i \in PlaySlots : vsFinishTimer(i)
  \/ \E i \in PlaySlots : vsSafetyTimer(i)
  \/ \E i \in PlaySlots : vsModeReset(i)

SpecPlayback == PlaybackInit /\ [][PlaybackNext]_vars

\* every native call settles, every sound ends, every armed timer fires
PlaybackProgress ==
  /\ \A i \in PlaySlots :
       /\ WF_vars(\E ok \in BOOLEAN : paInitialized(i, ok))
       /\ WF_vars(\E ok \in BOOLEAN : paStopped(i, ok))
       /\ WF_vars(\E ok \in BOOLEAN : paLoaded(i, ok))
       /\ WF_vars(\E ok \in BOOLEAN : paEvicted(i, ok))
       /\ WF_vars(\E ok \in BOOLEAN : paReloaded(i, ok))
       /\ WF_vars(\E ok \in BOOLEAN : paVolume(i, ok))
       /\ WF_vars(\E ok \in BOOLEAN : paStatus(i, ok))
       /\ WF_vars(\E ok \in BOOLEAN : paPlayed(i, ok))
       /\ WF_vars(paTimeout(i))
       /\ WF_vars(\E ok \in BOOLEAN : vsUnloaded(i, ok))
       /\ WF_vars(\E ok \in BOOLEAN : vsModeSet(i, ok))
       /\ WF_vars(\E ok \in BOOLEAN : vsLoaded(i, ok))
       /\ WF_vars(\E ok \in BOOLEAN : vsReady(i, ok))
       /\ WF_vars(\E ok \in BOOLEAN : vsPlayed(i, ok))
       /\ WF_vars(vsFinishTimer(i))
       /\ WF_vars(vsSafetyTimer(i))
       /\ WF_vars(vsModeReset(i))
  /\ WF_vars(\E x \in SoundObjects : soundFinished(x))

FairPlayback == SpecPlayback /\ PlaybackProgress

C15_OneSoundPlays ==
  service \in {"js", "ts"} => Cardinality(playingSounds) <= 1

\* C16: the playback cache holds at most maxCacheSize entries, whatever the
\* outcome of unloading an evicted entry (checked in the states where no
\* call is waiting for an unloadAsync() of its eviction to settle).
C16_CacheBounded ==
  (/\ service \in {"js", "ts"}
   /\ \A i \in PlaySlots : pa[i].pc # "evict") =>
    Len(audioCache) <= maxCacheSize

\* C17: when an insertion into a full cache evicts an entry, the entry it
\* picks is the least recently used one, a cache hit counting as a use.
C17_EvictsLeastRecentlyUsed ==
  service \in {"js", "ts"} => evicted.victim = evicted.lru


\* ======================================================================
\* APIService.sendAudioForTranscription(): the Socket.IO fallback transport
\* ======================================================================
\* everything a step of sendAudioForTranscription() leaves alone
sendFrame == <<variant, state, error, listeners, healthV, timersV, actV, saTrace,
               procV, audioV, socket, connected, awaitingReply, turn, plan,
               calls, last, serviceV, auxV>>

PutSend(t) == tx' = t /\ UNCHANGED <<sendFrame, imports>>

\* connect() with no socket: import('socket.io-client') is started (imports
\* in flight beyond MaxImports are not told apart)
importStarted == IF imports < MaxImports THEN imports + 1 ELSE imports

\* this.connect() / this.socket.connect(), followed by
\* await new Promise(resolve => setTimeout(resolve, 1000))
reconnect(t, pc) ==
  [t EXCEPT !.pc = pc, !.attempts = @ + 1, !.waits = @ + 1]

\* throw new Error(...), logged and rethrown by the catch
sendFailed(t) == [t EXCEPT !.pc = "idle", !.result = "failed"]

\* Math.ceil(audioSize / CHUNK_SIZE)
chunkCount(audioSize) == (audioSize + CHUNK_SIZE - 1) \div CHUNK_SIZE

\* is_last: i === chunkCount - 1
isLastNever(i, count) == FALSE

isLast(i, count) == i = count - 1

\* Math.min(start + CHUNK_SIZE, audioSize) - start, the length of chunk i
chunkLength(i, audioSize) ==
  IF i * CHUNK_SIZE + CHUNK_SIZE <= audioSize THEN CHUNK_SIZE
  ELSE audioSize - i * CHUNK_SIZE

\* emit('audio', {audio_data, file_format, chunked: false})
audioMessage(t) ==
  [event |-> "audio", total_chunks |-> 0, total_size |-> t.size,
   chunk_index |-> 0, is_last |-> FALSE, length |-> t.size]

\* emit('audio_chunk_info', {total_chunks, file_format, total_size})
chunkInfoMessage(t) ==
  [event |-> "audio_chunk_info", total_chunks |-> t.count,
   total_size |-> t.size, chunk_index |-> 0, is_last |-> FALSE, length |-> 0]

\* emit('audio_chunk', {chunk_data, chunk_index: i, is_last})
chunkMessage(t) ==
  [event |-> "audio_chunk", total_chunks |-> 0, total_size |-> 0,
   chunk_index |-> t.i, is_last |-> isLast(t.i, t.count),
   length |-> chunkLength(t.i, t.size)]

\* emit(): if (!this.socket || !this.connected) throw; this.socket.emit(...)
emit(t, message) ==
  IF socket # "open" \/ ~connected THEN sendFailed(t)
  ELSE [t EXCEPT !.out = Append(@, message)]

\* one turn of the loop body: emit chunk i, then await the 50 ms delay
emitChunk(t) ==
  LET e == emit(t, chunkMessage(t))
  IN  IF e.result = "failed" THEN e ELSE [e EXCEPT !.pc = "delay", !.i = @ + 1]

\* from the WebRTC check on: return if the stream carries the audio, else one
\* 'audio' message, or the control message and chunk 0
transmit(t) ==
  IF t.webrtc THEN [t EXCEPT !.pc = "idle", !.result = "streamed"]
  ELSE IF t.size <= CHUNK_SIZE
    THEN LET e == emit(t, audioMessage(t))
         IN  IF e.result = "failed" THEN e
             ELSE [e EXCEPT !.pc = "idle", !.result = "sent"]
    ELSE LET c == [t EXCEPT !.count = chunkCount(t.size), !.i = 0]
             e == emit(c, chunkInfoMessage(c))
         IN  IF e.result = "failed" THEN e ELSE emitChunk(e)

\* if (!this.connected) { reconnect, wait 1 s } ...
checkConnected(t) ==
  IF ~connected THEN reconnect(t, "waitConnected") ELSE transmit(t)

\* the application's connect() at start-up, with no socket yet
connectCalled ==
  /\ socket = "none" /\ imports = 0 /\ tx.pc = "idle" /\ tx.calls = 0
  /\ imports' = importStarted
  /\ UNCHANGED <<tx, sendFrame>>

\* processRecording() reads the recording as base64 text and calls
\* sendAudioForTranscription(audioData, fileFormat), which runs up to its
\* first await
sendAudioForTranscription ==
  /\ tx.pc = "idle" /\ tx.calls < MaxSends
  /\ LET t == [tx EXCEPT !.size = Base64Length(tx.file), !.count = 0, !.i = 0,
                         !.attempts = 0, !.waits = 0, !.out = <<>>,
                         !.result = "none", !.prev = tx.result,
                         !.before = Len(tx.out),
                         !.calls = @ + 1]
     IN  IF socket = "none"
           THEN /\ tx' = reconnect(t, "waitSocket")
                /\ imports' = importStarted
           ELSE /\ tx' = checkConnected(t)
                /\ UNCHANGED imports
  /\ UNCHANGED sendFrame

\* the 1 s wait after connect() with no socket is over
txSocketWaited ==
  /\ tx.pc = "waitSocket"
  /\ tx' = checkConnected(tx)
  /\ imports' = IF ~connected /\ socket = "none" THEN importStarted ELSE imports
  /\ UNCHANGED sendFrame

\* the 1 s wait after the reconnect is over:
\* if (!this.connected) throw new Error('Unable to connect to server')
txConnectedWaited ==
  /\ tx.pc = "waitConnected"
  /\ PutSend(IF ~connected THEN sendFailed(tx) ELSE transmit(tx))

\* the 50 ms delay after a chunk is over: the next chunk, or the end
txDelayed ==
  /\ tx.pc = "delay"
  /\ PutSend(IF tx.i < tx.count THEN emitChunk(tx)
             ELSE [tx EXCEPT !.pc = "idle", !.result = "sent"])

SendInit ==
  /\ variant = "ts"
  /\ plan = "free"
  /\ MachineInit
  /\ service = variant
  /\ ServiceInit
  /\ tx \in {TxIdle(file, webrtc) : file \in RecordingSizes, webrtc \in BOOLEAN}
  /\ AuxInit

SendNext ==
  \/ connectCalled
  \/ socketImported
  \/ socketConnect
  \/ socketDisconnect
  \/ sendAudioForTranscription
  \/ txSocketWaited
  \/ txConnectedWaited
  \/ txDelayed

SpecSend == SendInit /\ [][SendNext]_vars


\* the number of chunks a payload of this length needs: the least n with
\* n * CHUNK_SIZE >= size
ExpectedChunks(size) ==
  CHOOSE n \in 1..(size \div CHUNK_SIZE + 1) :
    (n - 1) * CHUNK_SIZE < size /\ size <= n * CHUNK_SIZE

\* message k of a call is what the chunked transfer puts there: the control
\* message with total_chunks first, then chunk k - 2, flagged iff it is the last
InSequence(out, k, size) ==
  IF k = 1
    THEN /\ out[k].event = "audio_chunk_info"
         /\ out[k].total_chunks = ExpectedChunks(size)
    ELSE /\ out[k].event = "audio_chunk"
         /\ out[k].chunk_index = k - 2
         /\ out[k].is_last = (k - 2 = ExpectedChunks(size) - 1)

StartsSequence(out, size) ==
  /\ Len(out) <= ExpectedChunks(size) + 1
  /\ \A k \in 1..Len(out) : InSequence(out, k, size)

WholeSequence(out, size) ==
  StartsSequence(out, size) /\ Len(out) = ExpectedChunks(size) + 1

\* C18: for a payload larger than the single-message limit, what a call of
\* sendAudioForTranscription() has emitted over Socket.IO is at every moment a
\* start of the sequence "audio_chunk_info with total_chunks = N, then
\* audio_chunk 0, 1, ..., N-1 in increasing order, each once, is_last on chunk
\* N-1 only"; it is the whole sequence when the call returns normally, and a
\* proper start of it when the call fails because the link dropped; a call made
\* after a failed one begins again with the control message and chunk 0.
C18_ChunkSequence ==
  tx.size > CHUNK_SIZE =>
    /\ StartsSequence(tx.out, tx.size)
    /\ tx.result = "sent" => WholeSequence(tx.out, tx.size)
    /\ tx.result = "failed" => Len(tx.out) <= ExpectedChunks(tx.size)
    /\ tx.result = "streamed" => tx.out = <<>>

\* C18 as stated: every call that emitted over Socket.IO and has ended emitted
\* the whole sequence.
C18_EachCallEmitsAll ==
  (tx.size > CHUNK_SIZE /\ tx.pc = "idle" /\ tx.out # <<>>) =>
    WholeSequence(tx.out, tx.size)

\* a retry after a send that failed part-way has sent all of three or more chunks
C18_Witness ==
  /\ tx.prev = "failed" /\ tx.before > 0
  /\ tx.result = "sent"
  /\ Len(tx.out) >= 4
  /\ tx.out[Len(tx.out)].is_last


\* 1.2 MB, to the character of padding
Is1200kB(n) == n \in {Size1200kB, Size1200KiB, Size1200KiB + 1}

\* the is_last flags of the chunks emitted, in order
ChunkFlags(out) ==
  [k \in 1..Len(SelectSeq(out, LAMBDA m : m.event = "audio_chunk")) |->
     SelectSeq(out, LAMBDA m : m.event = "audio_chunk")[k].is_last]

\* C19: a 1.2 MB recording sent whole through the fallback transport is read
\* as base64 text, a third longer than the file, and goes out in exactly 4
\* chunks, is_last false on chunks 0, 1, 2 and true on chunk 3; a payload whose
\* base64 text is 1.2 MB long goes out in exactly 3 chunks, is_last false on
\* chunks 0 and 1 and true on chunk 2.
C19_ChunksOf1200kB ==
  tx.result = "sent" =>
    /\ Is1200kB(tx.file) => ChunkFlags(tx.out) = <<FALSE, FALSE, FALSE, TRUE>>
    /\ Is1200kB(tx.size) => ChunkFlags(tx.out) = <<FALSE, FALSE, TRUE>>

\* C19 as stated: a 1.2 MB recording goes out in exactly 3 chunks, is_last
\* true on chunk 2 only.
C19_ThreeChunks ==
  (tx.result = "sent" /\ Is1200kB(tx.file)) =>
    ChunkFlags(tx.out) = <<FALSE, FALSE, TRUE>>

\* a 1.2 MB recording was sent whole in chunks
C19_Witness ==
  /\ tx.result = "sent" /\ Is1200kB(tx.file) /\ ~tx.webrtc
  /\ tx.size > 3 * CHUNK_SIZE
  /\ ChunkFlags(tx.out) # <<>>


\* C20: a sendAudioForTranscription() call that finds the link not open makes
\* exactly one reconnect attempt and one wait of about 1 s, and when it fails
\* at the connectivity check it has emitted no message.
C20_OneReconnectAttempt ==
  /\ tx.attempts > 0 => tx.attempts = 1 /\ tx.waits = 1
  /\ (tx.result = "failed" /\ tx.count = 0) => tx.out = <<>>


\* ======================================================================
\* APIService.on() / off() / emitEvent()
\* ======================================================================
PutEmitter(r) == ee' = r /\ UNCHANGED <<baseV, isPlaying, serviceV, tx, ws, rtc, ars>>

\* listeners.indexOf(callback): the first position of h, or 0
RECURSIVE indexOf(_, _, _)
indexOf(list, h, k) ==
  IF k > Len(list) THEN 0
  ELSE IF list[k] = h THEN k
  ELSE indexOf(list, h, k + 1)

\* listeners.splice(index, 1)
splice(list, index) ==
  [k \in 1..(Len(list) - 1) |-> IF k < index THEN list[k] ELSE list[k + 1]]

\* off(event, callback): the first registration of the callback is removed
off(r, e, h) ==
  LET list == r.eventListeners[e]
      index == indexOf(list, h, 1)
  IN  IF index = 0 THEN r
      ELSE [r EXCEPT !.eventListeners[e] = splice(list, index)]

\* try { callback(data) } catch (error) { console.error(...) }
callback(r, e, h) ==
  LET c == [r EXCEPT !.called[h] = @ + 1]
  IN  IF HandlerKind(h) = "offSelf" THEN off(c, e, h) ELSE c

\* Array.prototype.forEach: the length is read once, index k runs up to it,
\* and an index the array no longer has is passed over
RECURSIVE forEach(_, _, _, _)
forEach(r, e, k, len) ==
  IF k > len THEN r
  ELSE IF k > Len(r.eventListeners[e]) THEN forEach(r, e, k + 1, len)
  ELSE forEach(callback(r, e, r.eventListeners[e][k]), e, k + 1, len)

\* on(event, callback): listeners.push(callback)
on(e, h) ==
  /\ Len(ee.eventListeners[e]) < MaxSubscriptions
  /\ PutEmitter([ee EXCEPT !.eventListeners[e] = Append(@, h)])

\* off(event, callback) called by the application
offCalled(e, h) ==
  /\ h \in Handlers
  /\ PutEmitter(off(ee, e, h))

\* emitEvent(event, data)
emitEvent(e) ==
  /\ e \in EmitterEvents
  /\ LET r == [ee EXCEPT !.event = e, !.before = ee.eventListeners[e],
                         !.called = [h \in Handlers |-> 0]]
     IN  PutEmitter(forEach(r, e, 1, Len(r.eventListeners[e])))

EmitterInit ==
  /\ variant = "ts"
  /\ plan = "free"
  /\ MachineInit
  /\ service = variant
  /\ ServiceInit
  /\ tx = TxIdle(3, FALSE)
  /\ AuxInit

EmitterNext ==
  \/ \E e \in EmitterEvents, h \in Handlers : on(e, h)
  \/ \E e \in EmitterEvents, h \in Handlers : offCalled(e, h)
  \/ \E e \in EmitterEvents : emitEvent(e)

SpecEmitter == EmitterInit /\ [][EmitterNext]_vars

\* registrations of h in a list
Registrations(list, h) == Cardinality({k \in 1..Len(list) : list[k] = h})

\* C21: emitEvent(event, data) has called every handler once for each of its
\* registrations for that event at the time of the call, also when an earlier
\* handler threw or unregistered itself with off() during the delivery; a
\* handler registered only for other events was not called.
C21_EveryHandlerCalledOnce ==
  \A h \in Handlers : ee.called[h] = Registrations(ee.before, h)


\* ======================================================================
\* APIService.connect() / disconnect() and the socket's events
\* ======================================================================
linkFrame == <<variant, state, error, listeners, healthV, timersV, actV, saTrace,
               procV, audioV, awaitingReply, turn, plan, calls, last, serviceV,
               tx, ee, rtc, ars>>

\* the reasons socket.io gives a 'disconnect' event that the link did not ask for
DisconnectReasons == {"transport close", "ping timeout", "io server disconnect"}

\* if (reason === 'transport close' || reason === 'ping timeout')
reconnectsAfter(reason) == reason \in {"transport close", "ping timeout"}

\* connect(): nothing to do when connected; socket.connect() on a socket that is
\* disconnected; otherwise import('socket.io-client')
wsConnect ==
  /\ imports' = IF socket = "open" THEN imports ELSE importStarted
  /\ ws' = [ws EXCEPT !.closed = FALSE, !.reconnects = 0, !.opened = FALSE]
  /\ UNCHANGED <<socket, connected, linkFrame>>

\* the import resolved: this.socket = io.default(url, {autoConnect: true, ...})
wsImported ==
  /\ imports > 0
  /\ imports' = imports - 1
  /\ socket' = "open"
  /\ ws' = [ws EXCEPT !.reconnects = IF ws.closed THEN 1 ELSE @]
  /\ UNCHANGED <<connected, linkFrame>>

\* socket.on('connect') / socket.on('reconnect'): this.connected = true
wsOnConnect ==
  /\ socket = "open" /\ ~connected
  /\ connected' = TRUE
  /\ ws' = [ws EXCEPT !.opened = ws.closed, !.clientId = TRUE]
  /\ UNCHANGED <<socket, imports, linkFrame>>

\* socket.on('disconnect', reason): this.connected = false, and a 1 s timer
\* when the transport closed
wsOnDisconnect(reason) ==
  /\ socket = "open" /\ connected
  /\ connected' = FALSE
  /\ ws' = [ws EXCEPT !.reason = reason,
                      !.timers = IF reconnectsAfter(reason) /\ @ < MaxTimers
                                   THEN @ + 1 ELSE @]
  /\ UNCHANGED <<socket, imports, linkFrame>>

\* the 1 s timer: if (this.socket && this.socket.disconnected) this.socket.connect()
wsReconnectTimer ==
  /\ ws.timers > 0
  /\ ws' = [ws EXCEPT !.timers = @ - 1,
                      !.reconnects = IF socket = "open" /\ ~connected /\ ws.closed
                                       THEN 1 ELSE @]
  /\ UNCHANGED <<socket, connected, imports, linkFrame>>

\* disconnect(): if (this.socket) { socket.disconnect(); this.socket = null;
\* this.connected = false; this.clientId = null }; a connected socket gives its
\* 'disconnect' event with the reason 'io client disconnect'
wsDisconnect ==
  /\ socket' = "none"
  /\ connected' = FALSE
  /\ ws' = [ws EXCEPT !.closed = TRUE, !.reconnects = 0, !.opened = FALSE,
                      !.clientId = IF socket = "open" THEN FALSE ELSE @,
                      !.reason = IF socket = "open" /\ connected
                                   THEN "io client disconnect" ELSE @]
  /\ UNCHANGED <<imports, linkFrame>>

LinkInit ==
  /\ variant = "ts"
  /\ plan = "free"
  /\ MachineInit
  /\ service = variant
  /\ ServiceInit
  /\ tx = TxIdle(3, FALSE)
  /\ AuxInit

LinkNext ==
  \/ wsConnect
  \/ wsImported
  \/ wsOnConnect
  \/ \E reason \in DisconnectReasons : wsOnDisconnect(reason)
  \/ wsReconnectTimer
  \/ wsDisconnect

SpecLink == LinkInit /\ [][LinkNext]_vars

\* C22: after an explicit disconnect(), and until connect() is called again,
\* no connection is attempted (no socket is created or reconnected) and the
\* link is not connected, also when disconnect() was called while a connect()
\* was still in progress.
C22_ClosedStaysClosed ==
  ws.closed => ~connected /\ socket = "none" /\ ws.reconnects = 0 /\ ~ws.opened


\* ======================================================================
\* WebRTCService: startStream(), the signalling handlers, stopStream()
\* ======================================================================
PutStream(r) == rtc' = r /\ UNCHANGED <<baseV, isPlaying, serviceV, tx, ee, ws, ars>>

\* one more event of a kind, counted up to MaxStreamEvents
Counted(n) == IF n < MaxStreamEvents THEN n + 1 ELSE n

\* the peer connection has connectivity
Linked(r) == r.ice \in {"connected", "completed"} \/ r.conn = "connected"

\* _emitEvent(WEBRTC_EVENTS.STREAM_READY)
streamReady(r) ==
  [r EXCEPT !.ready = Counted(@), !.readyAnswered = r.answered,
            !.readyLinked = Linked(r)]

\* _emitEvent(WEBRTC_EVENTS.STREAM_CLOSED)
streamClosed(r) == [r EXCEPT !.closed = Counted(@)]

\* _emitEvent(WEBRTC_EVENTS.ERROR, error)
streamError(r) == [r EXCEPT !.errors = Counted(@)]

\* stopStream(): stop the tracks, close the peer connection,
\* this.isConnected = false, emit STREAM_CLOSED
stopStream(r) ==
  streamClosed([r EXCEPT !.localStream = FALSE, !.peerConnection = FALSE,
                         !.isConnected = FALSE,
                         !.openStreams = IF r.localStream THEN @ - 1 ELSE @,
                         !.openConnections = IF r.peerConnection THEN @ - 1 ELSE @])

\* the catch of startStream(): emit ERROR, stopStream(), return false
startFailed(r) == stopStream(streamError([r EXCEPT !.pc = "idle"]))

\* _handleDisconnection(): if (this.isConnected) { isConnected = false; emit
\* STREAM_CLOSED }
handleDisconnection(r) ==
  IF r.isConnected THEN streamClosed([r EXCEPT !.isConnected = FALSE]) ELSE r

Terminal == {"disconnected", "failed", "closed"}

\* the states a peer connection's ICE agent may enter next; it connects only
\* once the remote description is there
IceNext(r) ==
  CASE r.ice = "new" -> {"checking"}
    [] r.ice = "checking" -> (IF r.answered THEN {"connected"} ELSE {}) \cup {"failed"}
    [] r.ice = "connected" -> {"completed", "disconnected"}
    [] r.ice = "completed" -> {"disconnected"}
    [] r.ice = "disconnected" -> {"connected", "failed"}
    [] OTHER -> {}

\* the same for the connection state
ConnNext(r) ==
  CASE r.conn = "new" -> {"connecting"}
    [] r.conn = "connecting" -> (IF r.answered THEN {"connected"} ELSE {}) \cup {"failed"}
    [] r.conn = "connected" -> {"disconnected"}
    [] r.conn = "disconnected" -> {"connected", "failed"}
    [] OTHER -> {}

\* initialize(socketService, clientId)
initialize ==
  /\ ~rtc.isInitialized
  /\ PutStream([rtc EXCEPT !.isInitialized = TRUE])

\* startStream() up to its first await: a new RTCPeerConnection, then
\* getUserMedia(); a new session begins
mayStartStream ==
  /\ rtc.pc = "idle" /\ ~rtc.peerConnection /\ ~rtc.answering
  /\ rtc.sessions < MaxStreams

beginStream(c) ==
  LET r == [c EXCEPT !.sessions = @ + 1, !.ready = 0, !.closed = 0,
                     !.errors = 0, !.readyAnswered = FALSE,
                     !.readyLinked = FALSE]
  IN  IF ~c.isInitialized THEN startFailed(r)
      ELSE [r EXCEPT !.pc = "media", !.peerConnection = TRUE,
                     !.openConnections = @ + 1,
                     !.answered = FALSE, !.ice = "new", !.conn = "new"]

startStream ==
  /\ mayStartStream
  /\ PutStream(beginStream(rtc))

\* getUserMedia() settled: the tracks are added, _createAndSendOffer() starts
\* and throws when there is no peer connection any more
ssMedia(ok) ==
  /\ rtc.pc = "media"
  /\ PutStream(IF ~ok THEN startFailed(rtc)
               ELSE LET r == [rtc EXCEPT !.localStream = TRUE,
                                         !.openStreams = @ + 1]
                    IN  IF ~r.peerConnection THEN startFailed(r)
                        ELSE [r EXCEPT !.pc = "offer"])

\* createOffer() settled: setLocalDescription(offer) starts
ssOffer(ok) ==
  /\ rtc.pc = "offer"
  /\ PutStream(IF ok /\ rtc.peerConnection THEN [rtc EXCEPT !.pc = "local"]
               ELSE startFailed(rtc))

\* setLocalDescription() settled: the offer is sent, webrtc_stream_ready is
\* sent, this.isConnected = true, STREAM_READY is emitted
ssLocal(ok) ==
  /\ rtc.pc = "local"
  /\ PutStream(IF ok /\ rtc.peerConnection
                 THEN streamReady([rtc EXCEPT !.pc = "idle", !.isConnected = TRUE])
               ELSE startFailed(rtc))

\* _handleAnswer() up to its await: setRemoteDescription() on the peer
\* connection whose offer was sent
handleAnswer ==
  /\ rtc.isInitialized /\ rtc.peerConnection /\ rtc.pc = "idle"
  /\ ~rtc.answering /\ ~rtc.answered
  /\ PutStream([rtc EXCEPT !.answering = TRUE])

\* setRemoteDescription() settled
haApplied(ok) ==
  /\ rtc.answering
  /\ PutStream(IF ok /\ rtc.peerConnection
                 THEN [rtc EXCEPT !.answering = FALSE, !.answered = TRUE]
               ELSE streamError([rtc EXCEPT !.answering = FALSE]))

\* 'iceconnectionstatechange'
iceStateChange(to) ==
  /\ rtc.peerConnection /\ rtc.pc \in {"idle"}
  /\ to \in IceNext(rtc)
  /\ LET r == [rtc EXCEPT !.ice = to]
     IN  PutStream(IF to \in Terminal THEN handleDisconnection(r) ELSE r)

\* 'connectionstatechange'
connectionStateChange(to) ==
  /\ rtc.peerConnection /\ rtc.pc \in {"idle"}
  /\ to \in ConnNext(rtc)
  /\ LET r == [rtc EXCEPT !.conn = to]
     IN  PutStream(IF to \in Terminal THEN handleDisconnection(r) ELSE r)

\* _handleRemoteClose(): stopStream()
handleRemoteClose ==
  /\ rtc.isInitialized /\ rtc.sessions > 0
  /\ rtc.closed < MaxStreamEvents
  /\ PutStream(stopStream(rtc))

\* stopStream() called by the application
stopStreamCalled ==
  /\ rtc.sessions > 0
  /\ rtc.closed < MaxStreamEvents
  /\ PutStream(stopStream(rtc))

StreamInit ==
  /\ variant = "ts"
  /\ plan = "free"
  /\ MachineInit
  /\ service = variant
  /\ ServiceInit
  /\ tx = TxIdle(3, FALSE)
  /\ AuxInit

StreamNext ==
  \/ initialize
  \/ startStream
  \/ \E ok \in BOOLEAN : ssMedia(ok)
  \/ \E ok \in BOOLEAN : ssOffer(ok)
  \/ \E ok \in BOOLEAN : ssLocal(ok)
  \/ handleAnswer
  \/ \E ok \in BOOLEAN : haApplied(ok)
  \/ \E to \in {"checking", "connected", "completed", "disconnected", "failed"} :
       iceStateChange(to)
  \/ \E to \in {"connecting", "connected", "disconnected", "failed"} :
       connectionStateChange(to)
  \/ handleRemoteClose
  \/ stopStreamCalled

SpecStream == StreamInit /\ [][StreamNext]_vars

\* startStream() called while a peer connection exists and no start is in
\* flight: this.peerConnection = new RTCPeerConnection(...) again
startStreamOver ==
  /\ rtc.pc = "idle" /\ rtc.peerConnection /\ ~rtc.answering
  /\ rtc.sessions < MaxStreams
  /\ PutStream(beginStream(rtc))

\* _handleOffer(): a peer connection is created when there is none; then the
\* remote description, the answer and the local description are set, and a
\* failure emits ERROR
handleOffer(ok) ==
  /\ rtc.isInitialized
  /\ rtc.sessions > 0 \/ ~rtc.peerConnection
  /\ rtc.errors < MaxStreamEvents
  /\ LET r == IF rtc.peerConnection THEN rtc
              ELSE [rtc EXCEPT !.peerConnection = TRUE,
                               !.openConnections = @ + 1,
                               !.answered = FALSE, !.ice = "new", !.conn = "new"]
     IN  PutStream(IF ok THEN r ELSE streamError(r))

PeerNext ==
  \/ StreamNext
  \/ startStreamOver
  \/ \E ok \in BOOLEAN : handleOffer(ok)

SpecPeer == StreamInit /\ [][PeerNext]_vars

\* C36: at most one peer connection is open and at most one local media
\* stream is live, and when the service holds neither (the stream was stopped
\* or failed to start) none is left open.
C36_OnePeerSession ==
  /\ rtc.openConnections <= 1
  /\ rtc.openStreams <= 1
  /\ (~rtc.peerConnection /\ ~rtc.localStream /\ rtc.pc = "idle") =>
        rtc.openConnections = 0 /\ rtc.openStreams = 0

\* C23: whenever the channel reports itself connected (isConnected set, the
\* session's STREAM_READY emitted), the remote answer to its offer had been
\* applied and the connectivity state had become connected.
C23_ReadyOnlyWhenConnected ==
  rtc.ready > 0 => rtc.readyAnswered /\ rtc.readyLinked

\* C24: in each stream session STREAM_CLOSED is emitted at most once, whatever
\* terminal connectivity callbacks, remote closes and stopStream() calls come,
\* and a session that was connected and has ended emitted it once.
C24_ClosedOnce ==
  /\ rtc.closed <= 1
  /\ (rtc.ready > 0 /\ ~rtc.isConnected) => rtc.closed = 1


\* ======================================================================
\* AudioRecordingService: startRecording(), stopRecording(), silence detection
\* ======================================================================
PutRec(r) == ars' = r /\ UNCHANGED <<baseV, isPlaying, serviceV, tx, ee, ws, rtc>>

\* the same for a step in which a native call fails for an outside reason
PutRecFault(r) ==
  /\ ars.faults < MaxRecFaults
  /\ PutRec([r EXCEPT !.faults = @ + 1])

\* startRecording() returns
srReturn(r, i, ret) == [r EXCEPT !.sr[i].pc = "done", !.sr[i].ret = ret]

\* the catch of startRecording(): if (this.recording) this.recording = null;
\* return false
startCaught(r, i) == srReturn([r EXCEPT !.recording = 0], i, "false")

\* stopRecording() returns; the then-callback of the silence stop hands a
\* result to onSilenceDetected
spReturn(r, j, ret) ==
  [r EXCEPT !.sp[j].pc = "done", !.sp[j].ret = ret,
            !.sp[j].held = (r.recording # 0),
            !.handed = IF r.sp[j].auto /\ ret = "result" THEN @ + 1 ELSE @]

\* the outer catch of stopRecording(): this.recording = null;
\* silenceDetectionStartTime = null; return null
stopCaughtKeeps(r, j) == spReturn(r, j, "null")

stopCaught(r, j) ==
  spReturn([r EXCEPT !.recording = 0, !.silenceDetectionStartTime = -1], j, "null")

\* the recording was stopped and unloaded, or had been already: this.recording
\* = null; silenceDetectionStartTime = null; return {uri, recording, duration}
stopDone(r, j) ==
  spReturn([r EXCEPT !.recording = 0, !.silenceDetectionStartTime = -1], j, "result")

\* stopRecording() up to its first await: if (!this.recording) return null;
\* await this.recording.getStatusAsync()
stopRecording(r, j, auto) ==
  LET c == [r EXCEPT !.stops = @ + 1, !.sp[j] = [SpIdle EXCEPT !.auto = auto]]
  IN  IF c.recording = 0 THEN spReturn(c, j, "null")
      ELSE [c EXCEPT !.sp[j].pc = "status", !.sp[j].on = c.recording]

\* status.metering || -160
metering(level) == IF level = 0 THEN -160 ELSE level

\* _handleRecordingStatus(status) at time t, the stop it may start going to
\* slot j
handleRecordingStatus(r, level, t, j) ==
  IF ~r.silenceDetectionEnabled THEN r
  ELSE IF metering(level) <= silenceThresholdDb
    THEN IF r.silenceDetectionStartTime = -1
           THEN [r EXCEPT !.silenceDetectionStartTime = t]
         ELSE IF t - r.silenceDetectionStartTime >= silenceTimeThreshold
           THEN stopRecording([r EXCEPT !.autoStops = @ + 1], j, TRUE)
         ELSE r
  ELSE [r EXCEPT !.silenceDetectionStartTime = -1]

\* input levels in dB, from digital silence to full scale
Levels == {-160, -40, -30, -20, 0}

\* startRecording() up to its first await: return true if a recording is
\* held, else initializeRecording() asks for the permission
startRecording(c, i) ==
  LET r == [c EXCEPT !.starts = @ + 1]
  IN  IF r.recording # 0 THEN srReturn(r, i, "true")
      ELSE [r EXCEPT !.sr[i].pc = "perm"]

arStartRecording ==
  /\ ars.starts < MaxStarts /\ ars.starts < NumRecSlots
  /\ PutRec(startRecording(ars, ars.starts + 1))

\* Audio.requestPermissionsAsync() settled: not granted -> return false
arPermission(i, granted) ==
  /\ ars.sr[i].pc = "perm"
  /\ IF granted THEN PutRec([ars EXCEPT !.sr[i].pc = "mode"])
     ELSE PutRecFault(srReturn(ars, i, "false"))

\* Audio.setAudioModeAsync() settled: this.recording = new Audio.Recording();
\* prepareToRecordAsync() starts on it
arMode(i, ok) ==
  /\ ars.sr[i].pc = "mode"
  /\ IF ok
       THEN PutRec([ars EXCEPT !.isInitialized = TRUE, !.created = @ + 1,
                               !.overwrites = IF ars.recording # 0 THEN 1 ELSE @,
                               !.recording = ars.created + 1,
                               !.sr[i].pc = "prepare",
                               !.sr[i].on = ars.created + 1])
     ELSE PutRecFault(srReturn([ars EXCEPT !.isInitialized = FALSE], i, "false"))

\* prepareToRecordAsync() settled (the platform prepares one recorder at a
\* time): the status handler is set on this.recording and startAsync() starts
\* on it; a null this.recording throws into the catch
arPrepared(i, ok) ==
  /\ ars.sr[i].pc = "prepare"
  /\ ok => ars.prepared = {}
  /\ IF ok
       THEN LET r == [ars EXCEPT !.prepared = @ \cup {ars.sr[i].on}]
            IN  PutRec(IF r.recording = 0 THEN startCaught(r, i)
                       ELSE [r EXCEPT !.sr[i].pc = "start",
                                      !.sr[i].on = r.recording,
                                      !.silenceDetectionStartTime =
                                         IF variant = "js" /\ r.silenceDetectionEnabled
                                           THEN -1 ELSE @,
                                      !.monitored =
                                         IF variant = "js" /\ r.silenceDetectionEnabled
                                           THEN @ \cup {r.recording} ELSE @])
     ELSE IF ars.prepared # {} THEN PutRec(startCaught(ars, i))
     ELSE PutRecFault(startCaught(ars, i))

\* startAsync() settled
arStarted(i, ok) ==
  /\ ars.sr[i].pc = "start"
  /\ ok => ars.sr[i].on \in ars.prepared
  /\ IF ok
       THEN PutRec(srReturn([ars EXCEPT !.active = @ \cup {ars.sr[i].on}], i, "true"))
     ELSE IF ars.sr[i].on \notin ars.prepared THEN PutRec(startCaught(ars, i))
     ELSE PutRecFault(startCaught(ars, i))

\* stopRecording() called by the application or by the safety timer
arStopRecording ==
  /\ ars.stops < MaxStops /\ ars.stops < NumRecSlots
  /\ PutRec(stopRecording(ars, ars.stops + 1, FALSE))

\* getStatusAsync() settled (a failure is caught and logged):
\* stopAndUnloadAsync() starts on this.recording; a null this.recording throws
arStatus(j) ==
  /\ ars.sp[j].pc = "status"
  /\ PutRec(IF ars.recording = 0 THEN stopCaught(ars, j)
            ELSE [ars EXCEPT !.sp[j].pc = "unload", !.sp[j].on = ars.recording])

\* stopAndUnloadAsync() settled: it stopped the recorder, or the recorder had
\* been released already ('Recorder does not exist'), or it failed otherwise
\*   js: the released recorder counts as stopped; other errors -> outer catch
\*   ts: getURI() on this.recording (null throws); every error -> catch
arUnloaded(j, outcome) ==
  /\ ars.sp[j].pc = "unload"
  /\ outcome = "ok" => ars.sp[j].on \in ars.prepared
  /\ outcome = "released" => ars.sp[j].on \notin ars.prepared
  /\ LET r == [ars EXCEPT !.prepared = @ \ {ars.sp[j].on},
                          !.active = @ \ {ars.sp[j].on},
                          !.sp[j].released = (ars.sp[j].on \notin ars.prepared)]
     IN  CASE outcome = "ok" ->
                PutRec(IF variant = "ts" /\ r.recording = 0 THEN stopCaught(r, j)
                       ELSE stopDone(r, j))
           [] outcome = "released" ->
                PutRec(IF variant = "js" THEN stopDone(r, j) ELSE stopCaught(r, j))
           [] OTHER ->
                IF ars.sp[j].on \in ars.prepared
                  THEN PutRecFault(stopCaught([r EXCEPT !.prepared = ars.prepared,
                                                        !.active = ars.active], j))
                ELSE PutRec(stopCaught(r, j))

\* a status update of a recorder that records (js): 500 ms have passed
arStatusUpdate(level) ==
  /\ variant = "js"
  /\ ars.updates < MaxUpdates
  /\ ars.active \cap ars.monitored # {}
  /\ ars.stops < MaxStops /\ ars.stops < NumRecSlots
  /\ LET t == ars.now + progressUpdateInterval
         quiet == IF level > silenceThresholdDb THEN -1
                  ELSE IF ars.quietSince = -1 THEN t ELSE ars.quietSince
         due == ars.silenceDetectionEnabled /\ quiet # -1
                  /\ t - quiet >= silenceTimeThreshold
         r == handleRecordingStatus([ars EXCEPT !.now = t, !.updates = @ + 1,
                                                !.quietSince = quiet],
                                    level, t, ars.stops + 1)
     IN  PutRec([r EXCEPT !.autoQuiet = @ /\ (r.autoStops = ars.autoStops \/ due),
                          !.missed = @ \/ (due /\ r.autoStops = ars.autoStops)])

RecorderInit ==
  /\ variant \in Variants
  /\ plan = "free"
  /\ MachineInit
  /\ service = variant
  /\ ServiceInit
  /\ tx = TxIdle(3, FALSE)
  /\ ee = EeInit /\ ws = WsInit /\ rtc = RtcInit
  /\ ars \in {RecInit(enabled) : enabled \in BOOLEAN}

RecorderNext ==
  \/ arStartRecording
  \/ \E i \in RecSlots, granted \in BOOLEAN : arPermission(i, granted)
  \/ \E i \in RecSlots, ok \in BOOLEAN : arMode(i, ok)
  \/ \E i \in RecSlots, ok \in BOOLEAN : arPrepared(i, ok)
  \/ \E i \in RecSlots, ok \in BOOLEAN : arStarted(i, ok)
  \/ arStopRecording
  \/ \E j \in RecSlots : arStatus(j)
  \/ \E j \in RecSlots, outcome \in {"ok", "released", "error"} : arUnloaded(j, outcome)
  \/ \E level \in Levels : arStatusUpdate(level)

SpecRecorder == RecorderInit /\ [][RecorderNext]_vars

\* ----------------------------------------------------------------------
\* startListening() (ts) over startStreamingRecording(): the peer stream or
\* the local recording
\* ----------------------------------------------------------------------
turnFrame == <<variant, listeners, healthV, timersV, actV, saTrace, procV,
               recording, curPlay, responseSound, linkV, turn, plan, calls,
               last, isPlaying, serviceV, tx, ee, ws>>

\* startListening()'s catch: setState(VoiceState.ERROR, error)
ltFailed(r, cause) ==
  /\ state' = ERROR
  /\ error' = AnError
  /\ ars' = [r EXCEPT !.lt.pc = "failed", !.lt.cause = cause]

\* the safety timer is armed; 'Listening started'
ltListening(r) ==
  /\ ars' = [r EXCEPT !.lt.pc = "listening"]
  /\ UNCHANGED <<state, error>>

\* configureStreaming(config): useWebRTC is kept only if
\* APIService.isWebRTCSupported()
configureStreaming(useWebRTC, supported) ==
  /\ ars.lt.pc = "idle"
  /\ ars.useWebRTC # (useWebRTC /\ supported)
  /\ ars' = [ars EXCEPT !.useWebRTC = useWebRTC /\ supported]
  /\ UNCHANGED <<state, error, rtc, turnFrame>>

\* startAssistant() reached setState(LISTENING)
ltAssistantStarted ==
  /\ state = IDLE
  /\ state' = LISTENING
  /\ UNCHANGED <<error, rtc, ars, turnFrame>>

\* startListening() up to its first await: Audio.requestPermissionsAsync()
ltStartListening ==
  /\ state = LISTENING
  /\ ars.lt.pc = "idle"
  /\ ars' = [ars EXCEPT !.lt.pc = "perm"]
  /\ UNCHANGED <<state, error, rtc, turnFrame>>

\* the permission settled: startStreamingRecording() returns false when the
\* socket is not connected, starts the peer stream when useWebRTC is set, and
\* else starts the local recording
ltPermission(granted) ==
  /\ ars.lt.pc = "perm"
  /\ ars.starts < MaxStarts /\ ars.starts < NumRecSlots
  /\ mayStartStream
  /\ IF ~granted THEN ltFailed(ars, "permission") /\ UNCHANGED rtc
     ELSE IF ~connected THEN ltFailed(ars, "socket") /\ UNCHANGED rtc
     ELSE IF ars.useWebRTC
       THEN /\ rtc' = beginStream(rtc)
            /\ ars' = [ars EXCEPT !.lt.pc = "stream"]
            /\ UNCHANGED <<state, error>>
     ELSE /\ ars' = [startRecording(ars, ars.starts + 1)
                       EXCEPT !.lt.pc = "record", !.lt.on = ars.starts + 1]
          /\ UNCHANGED <<state, error, rtc>>
  /\ UNCHANGED turnFrame

\* WebRTCService.startStream() settled: _startWebRTCStreaming() returns its
\* result, and false makes startListening() throw 'Failed to start recording'
ltStreamSettled ==
  /\ ars.lt.pc = "stream"
  /\ rtc.pc = "idle"
  /\ IF rtc.isConnected THEN ltListening(ars) ELSE ltFailed(ars, "stream")
  /\ UNCHANGED <<rtc, turnFrame>>

\* startRecording() settled: the chunk interval is set up, or false is returned
ltRecordSettled ==
  /\ ars.lt.pc = "record"
  /\ ars.sr[ars.lt.on].pc = "done"
  /\ IF ars.sr[ars.lt.on].ret = "true" THEN ltListening(ars)
     ELSE ltFailed(ars, "recorder")
  /\ UNCHANGED <<rtc, turnFrame>>

FallbackInit ==
  /\ variant = "ts"
  /\ plan = "free"
  /\ MachineInit
  /\ service = variant
  /\ ServiceInit
  /\ tx = TxIdle(3, FALSE)
  /\ ee = EeInit /\ ws = WsInit /\ rtc = RtcInit
  /\ ars = RecInit(FALSE)

FallbackNext ==
  \/ wsConnect
  \/ wsImported
  \/ wsOnConnect
  \/ \E reason \in DisconnectReasons : wsOnDisconnect(reason)
  \/ initialize
  \/ \E useWebRTC, supported \in BOOLEAN : configureStreaming(useWebRTC, supported)
  \/ ltAssistantStarted
  \/ ltStartListening
  \/ \E granted \in BOOLEAN : ltPermission(granted)
  \/ \E ok \in BOOLEAN : ssMedia(ok)
  \/ \E ok \in BOOLEAN : ssOffer(ok)
  \/ \E ok \in BOOLEAN : ssLocal(ok)
  \/ ltStreamSettled
  \/ \E i \in RecSlots, granted \in BOOLEAN : arPermission(i, granted)
  \/ \E i \in RecSlots, ok \in BOOLEAN : arMode(i, ok)
  \/ \E i \in RecSlots, ok \in BOOLEAN : arPrepared(i, ok)
  \/ \E i \in RecSlots, ok \in BOOLEAN : arStarted(i, ok)
  \/ ltRecordSettled

SpecFallback == FallbackInit /\ [][FallbackNext]_vars

\* C25: when the peer stream is unavailable, fails to start or is not
\* connected, startListening() does not enter ERROR for it, and the turn
\* listens with a local recording held.
C25_FallsBackToLocalRecording ==
  /\ ~(state = ERROR /\ ars.lt.cause = "stream")
  /\ (ars.lt.pc = "listening" /\ ~rtc.isConnected) => ars.recording # 0

\* C26: startRecording() is idempotent: two calls with no stop between them
\* (and no failure of the platform) both return success, one Recording object
\* is created, and none is created while one is held.
C26_StartIsIdempotent ==
  (ars.stops = 0 /\ ars.faults = 0) =>
     /\ ars.overwrites = 0
     /\ ars.created <= 1
     /\ \A i \in RecSlots : ars.sr[i].pc = "done" => ars.sr[i].ret = "true"

attemptFailed(i) == slRecorder(i, FALSE)

\* C27: startListening() makes at most 3 attempts to start the recording, no
\* failed attempt puts the state machine into ERROR, and the failure of the
\* last attempt returns it to IDLE.
C27_FailedStartReturnsToIdle ==
  [][\A i \in ListenSlots :
       attemptFailed(i) =>
          /\ sl[i].retry < maxRetries
          /\ state # ERROR => state' # ERROR
          /\ sl'[i].pc # "rec" => state' = IDLE]_vars

\* C28: with silence detection enabled the recording is stopped by itself
\* exactly when the input level has stayed at or below the threshold for the
\* silence duration: no stop is started while a sample above the threshold
\* lies inside that duration, and none is missed when the duration is reached.
C28_StopsAfterSustainedSilence ==
  ars.silenceDetectionEnabled => ars.autoQuiet /\ ~ars.missed

\* C30: when the playback of a reply fails while the state is RESPONDING, the
\* reply is abandoned and the state machine is in LISTENING after the failure
\* was handled (not RESPONDING still, and not ERROR).
C30_PlaybackErrorReturnsToListening ==
  [][(playbackFailed /\ state = RESPONDING /\ curPlay.who = "st")
        => state' = LISTENING]_vars

\* ======================================================================
\* APIService.connect() / disconnect() with the socket objects told apart,
\* and the peer channel set up on them
\* ======================================================================
PutNet(n) ==
  /\ ws' = [ws EXCEPT !.net = n]
  /\ UNCHANGED <<socket, connected, imports, linkFrame>>

\* sockets that are connecting or connected
LiveSockets(n) == {k \in SocketIds : n.status[k] \in {"connecting", "connected"}}

\* WebRTCService.initialize(socket, clientId): once only
initializeOn(n, k) ==
  IF n.isInitialized THEN n
  ELSE [n EXCEPT !.isInitialized = TRUE, !.socketService = k,
                 !.signalOn = @ \cup {k}]

\* _setupWebRTC(): needs this.socket and this.clientId; initializes the peer
\* channel and registers its STREAM_READY / STREAM_CLOSED / ERROR listeners
setupWebRTC(n) ==
  IF n.socket = 0 \/ n.clientId = 0 THEN n
  ELSE [initializeOn(n, n.socket) EXCEPT !.setups = @ + 1]

\* WebRTCService._emitEvent(STREAM_CLOSED): every registered listener runs
streamClosedEmitted(n) ==
  [n EXCEPT !.closedDelivered = n.setups, !.usingWebRTC = (n.setups = 0) /\ @]

\* connect(): return when connected; socket.connect() on a socket that is not
\* connected; otherwise import('socket.io-client')
netConnect ==
  /\ ws.net.connects < MaxConnects
  /\ LET n == [ws.net EXCEPT !.connects = @ + 1]
     IN  /\ (n.socket = 0 \/ (~n.connected /\ n.status[n.socket] = "connected"))
               => n.pending < MaxPending
         /\ PutNet(IF n.socket # 0 /\ n.connected THEN n
                   ELSE IF n.socket # 0 /\ n.status[n.socket] # "connected"
                     THEN [n EXCEPT !.status[n.socket] = "connecting"]
                   ELSE [n EXCEPT !.pending = @ + 1])

\* the import resolved: this.socket = io.default(url, {autoConnect: true});
\* the handlers are registered on the new socket
netImported ==
  /\ ws.net.pending > 0
  /\ ws.net.created < MaxSockets
  /\ LET k == ws.net.created + 1
     IN  PutNet([ws.net EXCEPT !.pending = @ - 1, !.created = k, !.socket = k,
                               !.status[k] = "connecting"])

\* the 'connect' handler of socket k: it reads this.socket.id (a null
\* this.socket throws), sets this.connected, this.clientId = this.socket.id
\* (undefined while this.socket is not connected) and calls _setupWebRTC()
netOnConnect(k) ==
  /\ ws.net.status[k] = "connecting"
  /\ ws.net.setups < MaxSetups
  /\ LET n == [ws.net EXCEPT !.status[k] = "connected"]
     IN  PutNet(IF n.socket = 0 THEN n
                ELSE setupWebRTC([n EXCEPT !.connected = TRUE,
                                           !.clientId =
                                              IF n.status[n.socket] = "connected"
                                                THEN n.socket ELSE 0]))

\* the 'disconnect' handler of socket k: this.connected = false; the socket
\* reconnects by itself after a transport failure
netOnDisconnect(k, reconnecting) ==
  /\ ws.net.status[k] = "connected"
  /\ PutNet([ws.net EXCEPT !.connected = FALSE,
                           !.status[k] = IF reconnecting THEN "connecting"
                                         ELSE "disconnected"])

\* disconnect(): stopWebRTCStream() when usingWebRTC; this.socket.disconnect();
\* this.socket = null; this.connected = false; this.clientId = null
netDisconnect ==
  /\ ws.net.socket # 0 \/ ws.net.usingWebRTC
  /\ LET n == IF ws.net.usingWebRTC THEN streamClosedEmitted(ws.net) ELSE ws.net
     IN  PutNet(IF n.socket = 0 THEN n
                ELSE [n EXCEPT !.status[n.socket] = "disconnected", !.socket = 0,
                               !.connected = FALSE, !.clientId = 0])

\* startWebRTCStream() on a connected link: WebRTCService.startStream() sends
\* its offer on socketService and emits STREAM_READY
netStartStream ==
  /\ ws.net.connected /\ ws.net.isInitialized
  /\ ws.net.signals < MaxSignals
  /\ PutNet([ws.net EXCEPT !.signals = @ + 1,
                           !.offerOn = ws.net.socketService,
                           !.offerCurrent = ws.net.socket,
                           !.readyDelivered = ws.net.setups,
                           !.usingWebRTC = (ws.net.setups > 0) \/ @])

\* stopWebRTCStream(): WebRTCService.stopStream() emits STREAM_CLOSED
netStopStream ==
  /\ ws.net.isInitialized
  /\ ws.net.signals < MaxSignals
  /\ PutNet([streamClosedEmitted(ws.net) EXCEPT !.signals = @ + 1,
                                               !.usingWebRTC = FALSE])

SessionInit ==
  /\ variant = "ts"
  /\ plan = "free"
  /\ MachineInit
  /\ service = variant
  /\ ServiceInit
  /\ tx = TxIdle(3, FALSE)
  /\ AuxInit

SessionNext ==
  \/ netConnect
  \/ netImported
  \/ \E k \in SocketIds : netOnConnect(k)
  \/ \E k \in SocketIds, reconnecting \in BOOLEAN : netOnDisconnect(k, reconnecting)
  \/ netDisconnect
  \/ netStartStream
  \/ netStopStream

SpecSession == SessionInit /\ [][SessionNext]_vars

\* C34: the link is one connection: however often connect() is called, also
\* before the first attempt has completed, at most one socket (with its
\* handlers) is connecting or connected.
C34_OneSocket == Cardinality(LiveSockets(ws.net)) <= 1

\* the link is established on the socket that is current: it is connected and
\* the 'connect' handler took this.clientId from it
Established(n) ==
  /\ n.socket # 0 /\ n.connected
  /\ n.status[n.socket] = "connected"
  /\ n.clientId = n.socket

\* C35: when the link is established on the current socket, the peer channel
\* is set up on that socket (its signaling handlers are on it and it sends on
\* it), and every offer was sent on the socket that was current.
C35_PeerChannelOnCurrentSocket ==
  /\ Established(ws.net) =>
        /\ ws.net.isInitialized
        /\ ws.net.socketService = ws.net.socket
        /\ ws.net.socket \in ws.net.signalOn
  /\ ws.net.offerOn = ws.net.offerCurrent

\* C38: each STREAM_READY and each STREAM_CLOSED of the peer channel makes
\* APIService emit one WEBRTC_READY, respectively one WEBRTC_CLOSED, however
\* often the link has connected.
C38_OneEventPerStreamEvent ==
  /\ ws.net.readyDelivered \in {-1, 1}
  /\ ws.net.closedDelivered \in {-1, 1}

\* a step of one of the explicit resets: reset(), deactivate(), activate()
ExplicitReset ==
  \/ reset
  \/ activateCall
  \/ \E ok \in BOOLEAN : activateCheck(ok)
  \/ activateInit
  \/ deactivate
  \/ dCleanRecording
  \/ dCleanPlayback
  \/ dStopRecording
  \/ \E ok \in BOOLEAN : dClearHistory(ok)

\* C31: once the state is ERROR it stays ERROR until reset(), deactivate() or
\* activate() re-arms it: no other step changes the state of a machine that
\* is in ERROR.
C31_ErrorUntilReset ==
  [][(state = ERROR /\ state' # ERROR) => ExplicitReset]_vars

\* the last action was reset(), or the step in which deactivate() resolved:
\* whatever is in flight now belongs to a turn that was cancelled
JustCancelled == last.op = "reset" \/ "deactivateResolved" \in last.ev

\* a completion of an operation that was in flight: the continuations of
\* stopListening(), a resolved playback, a fired timer
StaleCompletion ==
  \/ \E i \in StopSlots, ok \in BOOLEAN : stCaptured(i, ok)
  \/ \E i \in StopSlots, ok \in BOOLEAN : stTranscribed(i, ok)
  \/ \E i \in StopSlots, kind \in {"audio", "noaudio", "fail"} : stReply(i, kind)
  \/ playbackFinished
  \/ \E ofHandle \in BOOLEAN : safetyTimerFired(ofHandle)
  \/ restartTimerFired

\* C32: a completion that belongs to a turn cancelled by deactivate() or
\* reset() does not change the state and starts neither a recording nor a
\* playback.
C32_StaleCompletionIsIgnored ==
  [][(JustCancelled /\ StaleCompletion) =>
        /\ state' = state
        /\ recording' => recording
        /\ isPlaying' => isPlaying
        /\ \A i \in ListenSlots : sl'[i].pc # "idle" => sl[i].pc # "idle"]_vars

\* C33: in the state in which deactivate() has resolved no timer of the state
\* machine is pending: no recording safety timer, no health-check interval,
\* no post-playback restart delay.
C33_DeactivateCancelsTimers ==
  "deactivateResolved" \in last.ev =>
     /\ safetyPending = 0
     /\ liveIntervals = 0
     /\ restartPending = 0

\* no operation of the state machine is in flight
Quiescent ==
  /\ \A i \in ListenSlots : sl[i].pc = "idle"
  /\ \A j \in StopSlots : st[j].pc = "idle"
  /\ dPc = "idle" /\ saPc = "idle" /\ actPc = "idle"

\* C37: a recording is held only in LISTENING: once the state has left
\* LISTENING and the operations in flight have finished (a startListening()
\* that was overtaken by stopListening() or deactivate() included), no
\* recording is held and no safety timer is pending.
C37_RecordingOnlyInListening ==
  (state # LISTENING /\ Quiescent) => (~recording /\ safetyPending = 0)

\* C39: for one recording, silence detection hands the capture to
\* onSilenceDetected at most once, also when status updates below the
\* threshold arrive while the stopRecording() it started is in progress.
C39_SilenceHandsOverOnce ==
  ars.created <= 1 => ars.handed <= 1

\* C40: the safety timer (and the cleanup it runs) of a playAudio() call
\* whose playback was stopped or superseded leaves the current playback
\* alone: while a sound of another call plays, it does not clear isPlaying
\* and does not remove that sound's status callback.
C40_StaleTimerLeavesPlaybackAlone ==
  [][\A i \in PlaySlots :
       paTimeout(i) =>
          \A x \in playingSounds :
             statusHandler[x] \notin {0, i} =>
                /\ isPlaying' = isPlaying
                /\ statusHandler'[x] = statusHandler[x]]_vars
====
